---- MODULE Spec2Model ----
(***************************************************************************)
(* Model of the two developer tools under scripts/:                        *)
(*   - scripts/monty_sync.py: the fail-closed sync workflow and its CLI;   *)
(*   - scripts/verify_script_baseline.py: the script baseline checker.     *)
(*                                                                         *)
(* Text handed to the tools (command output, script names) is a sequence   *)
(* of tokens: a token is one whitespace character (" ", "\t", "\n") or a   *)
(* run of non-whitespace characters.  Messages the tools build are TLA+    *)
(* strings, concatenated the way the f-strings of the source build them;   *)
(* the backquote of the source's messages is written ' (the lexer of TLA+  *)
(* takes no backquote inside a string).                                    *)
(***************************************************************************)
EXTENDS Integers, Sequences, FiniteSets, TLC

\* ------------------------------------------------------------------ bounds
MaxTargets == 2

\* ------------------------------------------------------------ text helpers
IsSpace(t) == t \in {" ", "\t", "\n"}

RECURSIVE lstrip(_)
lstrip(s) == IF s /= <<>> /\ IsSpace(Head(s)) THEN lstrip(Tail(s)) ELSE s

RECURSIVE rstrip(_)
rstrip(s) ==
    IF s /= <<>> /\ IsSpace(s[Len(s)]) THEN rstrip(SubSeq(s, 1, Len(s) - 1)) ELSE s

\* str.strip(): drop leading and trailing whitespace
strip(s) == rstrip(lstrip(s))

\* the characters of a token sequence as one string
RECURSIVE Str(_)
Str(s) == IF s = <<>> THEN "" ELSE Head(s) \o Str(Tail(s))

\* str.splitlines(): the lines of a text, without their line ends; no
\* trailing empty line
splitlines(s) ==
    LET ends == {i \in 1..Len(s) : s[i] = "\n"}
        n == Cardinality(ends)
        end_of(k) == IF k = 0 THEN 0
                     ELSE CHOOSE e \in ends : Cardinality({x \in ends : x <= e}) = k
    IN [k \in 1..n |-> SubSeq(s, end_of(k - 1) + 1, end_of(k) - 1)]
           \o (IF end_of(n) < Len(s) THEN <<SubSeq(s, end_of(n) + 1, Len(s))>> ELSE <<>>)

\* " ".join(parts) for a tuple of strings
RECURSIVE JoinSpace(_)
JoinSpace(parts) ==
    IF parts = <<>> THEN ""
    ELSE IF Len(parts) = 1 THEN parts[1]
    ELSE parts[1] \o " " \o JoinSpace(Tail(parts))

Range(s) == {s[i] : i \in 1..Len(s)}

RECURSIVE SeqsUpTo(_, _)
SeqsUpTo(S, n) ==
    IF n = 0 THEN {<<>>}
    ELSE LET shorter == SeqsUpTo(S, n - 1)
         IN shorter \cup {Append(q, x) : q \in shorter, x \in S}

\* --------------------------------------------------------------- SyncConfig
TargetNames == {"check-fmt", "lint", "test"}

repo_root == "/repo"

SyncConfig(targets) ==
    [submodule_path       |-> "third_party/full-monty",
     fork_remote          |-> "origin",
     fork_branch          |-> "main",
     upstream_remote      |-> "upstream",
     upstream_url         |-> "https://github.com/pydantic/monty.git",
     upstream_branch      |-> "main",
     verification_targets |-> targets]

DefaultConfig == SyncConfig(<<"check-fmt", "lint", "test">>)

Configs == {SyncConfig(t) : t \in SeqsUpTo(TargetNames, MaxTargets)} \cup {DefaultConfig}

submodule_root(cfg) == repo_root \o "/" \o cfg.submodule_path

\* ------------------------------------------------ runner outcomes (inputs)
StderrTexts == {<<>>, <<" ", "\n">>, <<"fatal:", " ", "boom", "\n">>}
StatusTexts == {<<>>, <<" ", "\n">>, <<" ", "M", " ", "file.py", "\n">>}
RemoteTexts ==
    {<<>>,
     <<"origin", "\n">>,
     <<"upstream", "\n">>,
     <<"origin", "\n", "upstream", "\n">>,
     <<" ", "upstream", " ", "\n", "\n", "origin">>,
     <<"fork", "\n", "upstream", "\n">>}
RevisionTexts == {<<"aaaa", "\n">>, <<"bbbb", "\n">>}
PlainTexts == {<<>>, <<"output", "\n">>}
ExitCodes == {0, 1}

CommandOutcome(ok, out, err, code) ==
    [ok |-> ok, stdout |-> out, stderr |-> err, exit_code |-> code]

Outcomes(outs) ==
    {CommandOutcome(ok, out, err, code) :
        ok \in BOOLEAN, out \in outs, err \in StderrTexts, code \in ExitCodes}

CommandInvocation(program, args, cwd) ==
    [program |-> program, args |-> args, cwd |-> cwd]

\* ------------------------------------------------------------- _run_checked
run_checked_mutant_never_raises(invocation, failure_summary, outcome) ==
    [raised |-> FALSE, message |-> ""]

\* the result of _run_checked once the runner has returned `outcome`
run_checked(invocation, failure_summary, outcome) ==
    IF outcome.ok
    THEN [raised |-> FALSE, message |-> ""]
    ELSE LET err == Str(strip(outcome.stderr))
             out == Str(strip(outcome.stdout))
             details == IF err /= "" THEN err
                        ELSE IF out /= "" THEN out ELSE "no error detail"
             command_text == JoinSpace(<<invocation.program>> \o invocation.args)
         IN [raised  |-> TRUE,
             message |-> failure_summary \o ": '" \o command_text
                         \o "' failed with exit code "
                         \o ToString(outcome.exit_code) \o ": " \o details]

\* ------------------------------------------------------------------- state
VARIABLES
    entry,            \* "none", "run_monty_sync" (called directly) or "main"
    argv,             \* the argument list handed to main
    config,           \* the SyncConfig of the run
    pc,               \* the next runner invocation of run_monty_sync, or how it ended
    calls,            \* the invocations the runner has received, in order
    results,          \* the ok flag the runner returned for each of them
    last_outcome,     \* the CommandOutcome the runner returned last
    log,              \* the lines written to stdout
    remotes,          \* _ensure_remotes: the remote names of the listing
    before_revision,  \* run_monty_sync: HEAD before the refresh
    gate,             \* _run_verification_gates: index of the next target
    error,            \* the message of the MontySyncError raised, if any
    outcome,          \* "none", "returned" or "raised": how run_monty_sync ended
    exit_code,        \* the value main returned (meaningful when pc = "exited")
    stderr_out        \* the lines main printed to stderr

sync_vars ==
    <<entry, argv, config, pc, calls, results, last_outcome, log, remotes,
      before_revision, gate, error, outcome, exit_code, stderr_out>>

\* scripts/verify_script_baseline.py
VARIABLES
    fs,                    \* the filesystem: what is at each path of the universe
    b_args,                \* main: the parsed arguments (root and explicit paths)
    b_pc,                  \* main: where it is
    script_paths,          \* main: the scripts to validate
    explicit_path_issues,  \* main: the issues of the explicit path arguments
    validated,             \* the paths validate_script has been called on, in order
    issues,                \* main: the issues of the scripts validated so far
    astroid_available,     \* whether "import astroid" succeeds in this environment
    b_out,                 \* the lines main printed to stdout
    b_exit,                \* the value main returned (meaningful when b_pc = "done")
    call,                  \* a direct call of one function of the checker: its arguments
    ret,                   \* what that call returned
    earlier_runs           \* what the runs of main that ended before this one produced

baseline_vars ==
    <<fs, b_args, b_pc, script_paths, explicit_path_issues, validated, issues,
      astroid_available, b_out, b_exit, call, ret, earlier_runs>>

vars == <<sync_vars, baseline_vars>>

\* --------------------------------------------------- the checked operations
\* _ensure_clean_worktree, once the runner has returned `o` for git status
ensure_clean_worktree_mutant_ignores_stdout(cwd, scope_name, o) ==
    run_checked(CommandInvocation("git", <<"status", "--porcelain">>, cwd),
                "unable to inspect " \o scope_name \o " worktree status", o)

ensure_clean_worktree(cwd, scope_name, o) ==
    LET checked ==
            run_checked(CommandInvocation("git", <<"status", "--porcelain">>, cwd),
                        "unable to inspect " \o scope_name \o " worktree status", o)
    IN IF checked.raised THEN checked
       ELSE IF strip(o.stdout) /= <<>>
            THEN [raised  |-> TRUE,
                  message |-> scope_name \o " worktree is not clean; commit or "
                              \o "stash changes before running monty sync"]
            ELSE [raised |-> FALSE, message |-> ""]

\* _ensure_remotes: the set of remote names of a `git remote` listing
listed_remotes(out) ==
    {Str(strip(line)) : line \in {l \in Range(splitlines(out)) : strip(l) /= <<>>}}

ensure_remotes_listing_mutant_accepts_missing_fork(cfg, o) ==
    run_checked(CommandInvocation("git", <<"remote">>, submodule_root(cfg)),
                "unable to list full-monty remotes", o)

\* _ensure_remotes up to its second runner call: the listing and the fork check
ensure_remotes_listing(cfg, o) ==
    LET checked ==
            run_checked(CommandInvocation("git", <<"remote">>, submodule_root(cfg)),
                        "unable to list full-monty remotes", o)
    IN IF checked.raised THEN checked
       ELSE IF cfg.fork_remote \notin listed_remotes(o.stdout)
            THEN [raised  |-> TRUE,
                  message |-> "fork remote '" \o cfg.fork_remote
                              \o "' is missing in " \o cfg.submodule_path]
            ELSE [raised |-> FALSE, message |-> ""]

\* _ensure_remotes: the remote-configuration command and its failure summary
upstream_command_mutant_always_add(cfg, rs) ==
    [invocation |->
         CommandInvocation("git",
             <<"remote", "add", cfg.upstream_remote, cfg.upstream_url>>,
             submodule_root(cfg)),
     failure_summary |-> "unable to add upstream remote"]

upstream_command(cfg, rs) ==
    IF cfg.upstream_remote \notin rs
    THEN [invocation |->
              CommandInvocation("git",
                  <<"remote", "add", cfg.upstream_remote, cfg.upstream_url>>,
                  submodule_root(cfg)),
          failure_summary |-> "unable to add upstream remote"]
    ELSE [invocation |->
              CommandInvocation("git",
                  <<"remote", "set-url", cfg.upstream_remote, cfg.upstream_url>>,
                  submodule_root(cfg)),
          failure_summary |-> "unable to update upstream remote URL"]

\* _read_head_revision: the invocation
read_head_revision_invocation(cfg) ==
    CommandInvocation("git", <<"rev-parse", "HEAD">>, submodule_root(cfg))

submodule_update_invocation_mutant_in_submodule(cfg) ==
    CommandInvocation("git",
        <<"submodule", "update", "--init", "--recursive", cfg.submodule_path>>,
        submodule_root(cfg))

\* run_monty_sync: the submodule initialization command
submodule_update_invocation(cfg) ==
    CommandInvocation("git",
        <<"submodule", "update", "--init", "--recursive", cfg.submodule_path>>,
        repo_root)

\* run_monty_sync: the staging command
stage_invocation(cfg) == CommandInvocation("git", <<"add", cfg.submodule_path>>, repo_root)

refresh_submodule_branch_mutant_merge_first(cfg) ==
    <<[invocation |->
           CommandInvocation("git",
               <<"merge", "--ff-only",
                 cfg.upstream_remote \o "/" \o cfg.upstream_branch>>,
               submodule_root(cfg)),
       failure_summary |->
           "unable to fast-forward fork branch with upstream; resolve divergence manually"],
      [invocation |->
           CommandInvocation("git", <<"fetch", "--prune", cfg.fork_remote>>,
                             submodule_root(cfg)),
       failure_summary |-> "unable to fetch fork remote"],
      [invocation |->
           CommandInvocation("git", <<"fetch", "--prune", cfg.upstream_remote>>,
                             submodule_root(cfg)),
       failure_summary |-> "unable to fetch upstream remote"],
      [invocation |->
           CommandInvocation("git",
               <<"checkout", "-B", cfg.fork_branch,
                 cfg.fork_remote \o "/" \o cfg.fork_branch>>,
               submodule_root(cfg)),
       failure_summary |-> "unable to refresh local fork branch"]>>

\* the fetch of the fork remote is made a second time
refresh_submodule_branch_mutant_fetches_twice(cfg) ==
    <<[invocation |->
           CommandInvocation("git", <<"fetch", "--prune", cfg.fork_remote>>,
                             submodule_root(cfg)),
       failure_summary |-> "unable to fetch fork remote"],
      [invocation |->
           CommandInvocation("git", <<"fetch", "--prune", cfg.fork_remote>>,
                             submodule_root(cfg)),
       failure_summary |-> "unable to fetch fork remote"],
      [invocation |->
           CommandInvocation("git",
               <<"checkout", "-B", cfg.fork_branch,
                 cfg.fork_remote \o "/" \o cfg.fork_branch>>,
               submodule_root(cfg)),
       failure_summary |-> "unable to refresh local fork branch"],
      [invocation |->
           CommandInvocation("git",
               <<"merge", "--ff-only",
                 cfg.upstream_remote \o "/" \o cfg.upstream_branch>>,
               submodule_root(cfg)),
       failure_summary |->
           "unable to fast-forward fork branch with upstream; resolve divergence manually"]>>

\* _refresh_submodule_branch: its four commands, in order
refresh_submodule_branch(cfg) ==
    <<[invocation |->
           CommandInvocation("git", <<"fetch", "--prune", cfg.fork_remote>>,
                             submodule_root(cfg)),
       failure_summary |-> "unable to fetch fork remote"],
      [invocation |->
           CommandInvocation("git", <<"fetch", "--prune", cfg.upstream_remote>>,
                             submodule_root(cfg)),
       failure_summary |-> "unable to fetch upstream remote"],
      [invocation |->
           CommandInvocation("git",
               <<"checkout", "-B", cfg.fork_branch,
                 cfg.fork_remote \o "/" \o cfg.fork_branch>>,
               submodule_root(cfg)),
       failure_summary |-> "unable to refresh local fork branch"],
      [invocation |->
           CommandInvocation("git",
               <<"merge", "--ff-only",
                 cfg.upstream_remote \o "/" \o cfg.upstream_branch>>,
               submodule_root(cfg)),
       failure_summary |->
           "unable to fast-forward fork branch with upstream; resolve divergence manually"]>>

verification_gate_mutant_reversed(cfg, i) ==
    LET n == Len(cfg.verification_targets) + 1 - i
    IN [invocation |->
            CommandInvocation("make", <<cfg.verification_targets[n]>>, repo_root),
        failure_summary |->
            "verification gate '" \o cfg.verification_targets[n] \o "' failed"]

\* _run_verification_gates: the command of one target and its failure summary
verification_gate(cfg, i) ==
    [invocation |->
         CommandInvocation("make", <<cfg.verification_targets[i]>>, repo_root),
     failure_summary |->
         "verification gate '" \o cfg.verification_targets[i] \o "' failed"]

parse_args_mutant_help_anywhere(args) ==
    IF args = <<>>
    THEN [exits |-> FALSE, code_is_int |-> FALSE, code |-> 0, text |-> "", printed |-> <<>>]
    ELSE IF args[1] \in {"-h", "--help"}
         THEN [exits |-> TRUE, code_is_int |-> TRUE, code |-> 0, text |-> "",
               printed |-> <<"usage: monty_sync.py">>]
         ELSE [exits |-> TRUE, code_is_int |-> FALSE, code |-> 0,
               text |-> "unsupported arguments: " \o JoinSpace(args), printed |-> <<>>]

\* _parse_args: what it does with an argument list
parse_args(args) ==
    IF args = <<>>
    THEN [exits |-> FALSE, code_is_int |-> FALSE, code |-> 0, text |-> "", printed |-> <<>>]
    ELSE IF Len(args) = 1 /\ args[1] \in {"-h", "--help"}
         THEN [exits |-> TRUE, code_is_int |-> TRUE, code |-> 0, text |-> "",
               printed |-> <<"usage: monty_sync.py">>]
         ELSE [exits |-> TRUE, code_is_int |-> FALSE, code |-> 0,
               text |-> "unsupported arguments: " \o JoinSpace(args), printed |-> <<>>]

\* main: the value it returns once run_monty_sync has ended
main_exit_code_mutant_always_zero(how) == 0

main_exit_code(how) == IF how = "raised" THEN 1 ELSE 0

\* main: the line it prints to stderr for a MontySyncError
main_error_line(message) == "monty-sync error: " \o message

\* ------------------------------------------------------- one runner call
\* One runner invocation and what follows it up to the next one: `inv` is
\* recorded with the ok flag of the outcome `o`; `res` is the verdict of the
\* checks on the outcome; `pre` is logged before the call, `post` after a
\* successful one; `next` is where the run continues ("returned": it ends).
\* When main made the call it handles the end of the run.
Advance(inv, o, res, pre, post, next) ==
    /\ calls' = Append(calls, inv)
    /\ results' = Append(results, o.ok)
    /\ last_outcome' = o
    /\ UNCHANGED <<entry, argv, config, baseline_vars>>
    /\ IF res.raised
       THEN /\ log' = log \o pre
            /\ error' = res.message
            /\ outcome' = "raised"
            /\ IF entry = "main"
               THEN /\ pc' = "exited"
                    /\ exit_code' = main_exit_code("raised")
                    /\ stderr_out' = Append(stderr_out, main_error_line(res.message))
               ELSE /\ pc' = "raised"
                    /\ UNCHANGED <<exit_code, stderr_out>>
       ELSE /\ log' = log \o pre \o post
            /\ UNCHANGED <<error, stderr_out>>
            /\ IF next = "returned"
               THEN /\ outcome' = "returned"
                    /\ IF entry = "main"
                       THEN pc' = "exited" /\ exit_code' = main_exit_code("returned")
                       ELSE pc' = "returned" /\ UNCHANGED exit_code
               ELSE /\ pc' = next
                    /\ UNCHANGED <<outcome, exit_code>>

\* ------------------------------------------------------------------ actions
ArgLists ==
    {<<>>, <<"-h">>, <<"--help">>, <<"--unexpected">>, <<"-h", "--help">>,
     <<"--help", "extra">>, <<"help">>}

MainArgs ==
    {[is_none |-> TRUE, value |-> <<>>]}
        \cup {[is_none |-> FALSE, value |-> v] : v \in ArgLists}

\* main, up to the call of run_monty_sync
Main ==
    \E a \in MainArgs :
        LET cli_args == IF a.is_none THEN <<>> ELSE a.value
            parsed == parse_args(cli_args)
        IN /\ pc = "start"
           /\ entry' = "main"
           /\ argv' = cli_args
           /\ config' = DefaultConfig
           /\ log' = log \o parsed.printed
           /\ IF parsed.exits
              THEN /\ pc' = "exited"
                   /\ IF parsed.code_is_int
                      THEN exit_code' = parsed.code /\ UNCHANGED stderr_out
                      ELSE exit_code' = 2 /\ stderr_out' = Append(stderr_out, parsed.text)
              ELSE /\ pc' = "status_superproject"
                   /\ UNCHANGED <<exit_code, stderr_out>>
           /\ UNCHANGED <<calls, results, last_outcome, remotes, before_revision, gate,
                          error, outcome, baseline_vars>>

\* a direct call of run_monty_sync(runner, config=cfg, stdout=...)
CallRunMontySync ==
    \E cfg \in Configs :
        /\ pc = "start"
        /\ entry' = "run_monty_sync"
        /\ config' = cfg
        /\ pc' = "status_superproject"
        /\ UNCHANGED <<argv, calls, results, last_outcome, log, remotes,
                       before_revision, gate, error, outcome, exit_code, stderr_out,
                       baseline_vars>>

EnsureCleanWorktreeSuperproject ==
    \E o \in Outcomes(StatusTexts) :
        /\ pc = "status_superproject"
        /\ Advance(CommandInvocation("git", <<"status", "--porcelain">>, repo_root), o,
                   ensure_clean_worktree(repo_root, "superproject", o),
                   <<"monty-sync: checking superproject worktree cleanliness">>,
                   <<"monty-sync: initializing " \o config.submodule_path>>,
                   "submodule_update")
        /\ UNCHANGED <<remotes, before_revision, gate>>

SubmoduleUpdate ==
    \E o \in Outcomes(PlainTexts) :
        /\ pc = "submodule_update"
        /\ Advance(submodule_update_invocation(config), o,
                   run_checked(submodule_update_invocation(config),
                               "unable to initialize full-monty submodule", o),
                   <<>>,
                   <<"monty-sync: checking full-monty worktree cleanliness">>,
                   "status_submodule")
        /\ UNCHANGED <<remotes, before_revision, gate>>

EnsureCleanWorktreeSubmodule ==
    \E o \in Outcomes(StatusTexts) :
        /\ pc = "status_submodule"
        /\ Advance(CommandInvocation("git", <<"status", "--porcelain">>,
                                     submodule_root(config)), o,
                   ensure_clean_worktree(submodule_root(config), "full-monty submodule", o),
                   <<>>,
                   <<"monty-sync: ensuring remote configuration">>,
                   "remote_list")
        /\ UNCHANGED <<remotes, before_revision, gate>>

EnsureRemotesList ==
    \E o \in Outcomes(RemoteTexts) :
        LET res == ensure_remotes_listing(config, o)
        IN /\ pc = "remote_list"
           /\ Advance(CommandInvocation("git", <<"remote">>, submodule_root(config)), o,
                      res, <<>>, <<>>, "remote_configure")
           /\ remotes' = IF res.raised THEN remotes ELSE listed_remotes(o.stdout)
           /\ UNCHANGED <<before_revision, gate>>

EnsureRemotesConfigure ==
    \E o \in Outcomes(PlainTexts) :
        LET cmd == upstream_command(config, remotes)
        IN /\ pc = "remote_configure"
           /\ Advance(cmd.invocation, o,
                      run_checked(cmd.invocation, cmd.failure_summary, o),
                      <<>>, <<>>, "rev_parse_before")
           /\ UNCHANGED <<remotes, before_revision, gate>>

ReadHeadRevisionBefore ==
    \E o \in Outcomes(RevisionTexts) :
        LET res == run_checked(read_head_revision_invocation(config),
                               "unable to read HEAD revision", o)
        IN /\ pc = "rev_parse_before"
           /\ Advance(read_head_revision_invocation(config), o, res,
                      <<>>,
                      <<"monty-sync: fetching remotes and refreshing fork branch">>,
                      "refresh_1")
           /\ before_revision' =
                  IF res.raised THEN before_revision ELSE Str(strip(o.stdout))
           /\ UNCHANGED <<remotes, gate>>

RefreshStep(i) ==
    \E o \in Outcomes(PlainTexts) :
        LET cmd == refresh_submodule_branch(config)[i]
        IN /\ pc = "refresh_" \o ToString(i)
           /\ Advance(cmd.invocation, o,
                      run_checked(cmd.invocation, cmd.failure_summary, o),
                      <<>>, <<>>,
                      IF i < Len(refresh_submodule_branch(config))
                      THEN "refresh_" \o ToString(i + 1)
                      ELSE "rev_parse_after")
           /\ UNCHANGED <<remotes, before_revision, gate>>

FetchFork == RefreshStep(1)
FetchUpstream == RefreshStep(2)
CheckoutForkBranch == RefreshStep(3)
MergeUpstream == RefreshStep(4)

revision_log_mutant_always_updated(before, after) ==
    "monty-sync: submodule revision updated " \o before \o " -> " \o after

\* run_monty_sync, lines 334-337: the log line on the two revisions
revision_log(before, after) ==
    IF before = after
    THEN "monty-sync: submodule revision already current"
    ELSE "monty-sync: submodule revision updated " \o before \o " -> " \o after

ReadHeadRevisionAfter ==
    \E o \in Outcomes(RevisionTexts) :
        /\ pc = "rev_parse_after"
        /\ Advance(read_head_revision_invocation(config), o,
                   run_checked(read_head_revision_invocation(config),
                               "unable to read HEAD revision", o),
                   <<>>,
                   <<revision_log(before_revision, Str(strip(o.stdout)))>>,
                   "add")
        /\ UNCHANGED <<remotes, before_revision, gate>>

StageSubmodule ==
    \E o \in Outcomes(PlainTexts) :
        LET res == run_checked(stage_invocation(config),
                               "unable to stage submodule pointer update", o)
            none == config.verification_targets = <<>>
        IN /\ pc = "add"
           /\ Advance(stage_invocation(config), o, res,
                      <<>>,
                      <<"monty-sync: staged submodule pointer update",
                        "monty-sync: running verification gates">>
                          \o (IF none THEN <<"monty-sync: completed successfully">>
                              ELSE <<>>),
                      IF none THEN "returned" ELSE "gates")
           /\ gate' = IF res.raised \/ none THEN gate ELSE 1
           /\ UNCHANGED <<remotes, before_revision>>

RunVerificationGate ==
    \E o \in Outcomes(PlainTexts) :
        LET cmd == verification_gate(config, gate)
            res == run_checked(cmd.invocation, cmd.failure_summary, o)
            last == gate = Len(config.verification_targets)
        IN /\ pc = "gates"
           /\ Advance(cmd.invocation, o, res,
                      <<>>,
                      IF last THEN <<"monty-sync: completed successfully">> ELSE <<>>,
                      IF last THEN "returned" ELSE "gates")
           /\ gate' = IF res.raised \/ last THEN gate ELSE gate + 1
           /\ UNCHANGED <<remotes, before_revision>>

\* ----------------------------------------------------------- specification
\* the sync tool before it is started
SyncIdle ==
    /\ entry = "none"
    /\ argv = <<>>
    /\ config = DefaultConfig
    /\ pc = "start"
    /\ calls = <<>>
    /\ results = <<>>
    /\ last_outcome = CommandOutcome(TRUE, <<>>, <<>>, 0)
    /\ log = <<>>
    /\ remotes = {}
    /\ before_revision = ""
    /\ gate = 0
    /\ error = ""
    /\ outcome = "none"
    /\ exit_code = 0
    /\ stderr_out = <<>>

\* no function of the checker is called directly
NoCall == [fn |-> "none"]
NoReturn == [returned |-> FALSE]

\* the baseline checker not running, on an empty filesystem
BaselineIdle ==
    /\ fs = <<>>
    /\ b_args = [root |-> <<>>, paths |-> <<>>]
    /\ b_pc = "idle"
    /\ script_paths = <<>>
    /\ explicit_path_issues = <<>>
    /\ validated = <<>>
    /\ issues = <<>>
    /\ astroid_available = TRUE
    /\ b_out = <<>>
    /\ b_exit = 0
    /\ call = NoCall
    /\ ret = NoReturn
    /\ earlier_runs = <<>>

SyncInit == SyncIdle /\ BaselineIdle

SyncNext ==
    \/ Main
    \/ CallRunMontySync
    \/ EnsureCleanWorktreeSuperproject
    \/ SubmoduleUpdate
    \/ EnsureCleanWorktreeSubmodule
    \/ EnsureRemotesList
    \/ EnsureRemotesConfigure
    \/ ReadHeadRevisionBefore
    \/ FetchFork
    \/ FetchUpstream
    \/ CheckoutForkBranch
    \/ MergeUpstream
    \/ ReadHeadRevisionAfter
    \/ StageSubmodule
    \/ RunVerificationGate

SyncSpec == SyncInit /\ [][SyncNext]_vars

\* =========================================================================
\* Claims about scripts/monty_sync.py, checked under SyncSpec
\* =========================================================================
IsPrefix(a, b) == Len(a) <= Len(b) /\ SubSeq(b, 1, Len(a)) = a

SyncEnded == pc \in {"returned", "raised", "exited"}

Git(args, cwd) == [program |-> "git", args |-> args, cwd |-> cwd]

\* C1: run_monty_sync is fail-closed: a command for which the runner
\* returned ok = false is the last command the runner ever receives, the run
\* has raised MontySyncError, and nothing more can happen in the run.
C1_FailClosed ==
    \A i \in 1..Len(results) :
        ~results[i] =>
            /\ i = Len(results)
            /\ Len(calls) = i
            /\ outcome = "raised"
            /\ error /= ""
            /\ ~ENABLED SyncNext

\* a gate (the last position of the sequence) has failed
C1_Witness ==
    /\ Len(config.verification_targets) = 2
    /\ Len(results) = 14
    /\ ~results[14]
    /\ outcome = "raised"

\* C2: when every command succeeds, both worktrees are clean and the listing
\* names the fork and the upstream remote, the runner receives exactly the
\* twelve git commands below and then one make per configured target, in
\* this order; while the run is under way the calls are a prefix of it.
HappyCalls(targets) ==
    <<Git(<<"status", "--porcelain">>, "/repo"),
      Git(<<"submodule", "update", "--init", "--recursive", "third_party/full-monty">>,
          "/repo"),
      Git(<<"status", "--porcelain">>, "/repo/third_party/full-monty"),
      Git(<<"remote">>, "/repo/third_party/full-monty"),
      Git(<<"remote", "set-url", "upstream", "https://github.com/pydantic/monty.git">>,
          "/repo/third_party/full-monty"),
      Git(<<"rev-parse", "HEAD">>, "/repo/third_party/full-monty"),
      Git(<<"fetch", "--prune", "origin">>, "/repo/third_party/full-monty"),
      Git(<<"fetch", "--prune", "upstream">>, "/repo/third_party/full-monty"),
      Git(<<"checkout", "-B", "main", "origin/main">>, "/repo/third_party/full-monty"),
      Git(<<"merge", "--ff-only", "upstream/main">>, "/repo/third_party/full-monty"),
      Git(<<"rev-parse", "HEAD">>, "/repo/third_party/full-monty"),
      Git(<<"add", "third_party/full-monty">>, "/repo")>>
    \o [i \in 1..Len(targets) |->
           [program |-> "make", args |-> <<targets[i]>>, cwd |-> "/repo"]]

C2_HappyPathSequence ==
    /\ (outcome = "returned" /\ "upstream" \in remotes)
           => calls = HappyCalls(config.verification_targets)
    /\ ((\A i \in 1..Len(results) : results[i])
            /\ (Len(calls) > 4 => "upstream" \in remotes))
           => IsPrefix(calls, HappyCalls(config.verification_targets))

C2_Witness ==
    /\ outcome = "returned"
    /\ "upstream" \in remotes
    /\ config.verification_targets = <<"lint", "check-fmt">>
    /\ Len(calls) = 14

\* C3: when the first git status of the superproject succeeds with non-blank
\* output, the run raises "superproject worktree is not clean ..." with
\* exactly one command invoked, and no command is issued afterwards.
C3_DirtySuperprojectStops ==
    (/\ Len(calls) = 1
     /\ last_outcome.ok
     /\ \E i \in 1..Len(last_outcome.stdout) : ~IsSpace(last_outcome.stdout[i]))
        => /\ outcome = "raised"
           /\ error = "superproject worktree is not clean; commit or stash changes before running monty sync"
           /\ calls = <<Git(<<"status", "--porcelain">>, "/repo")>>
           /\ ~ENABLED SyncNext

C3_Witness ==
    /\ Len(calls) = 1
    /\ last_outcome.ok
    /\ last_outcome.stdout = <<" ", "M", " ", "file.py", "\n">>
    /\ outcome = "raised"

\* C4: every command whose working directory is the submodule root comes
\* after a git submodule update --init --recursive that returned ok.
C4_InitBeforeSubmoduleCommands ==
    \A i \in 1..Len(calls) :
        calls[i].cwd = "/repo/third_party/full-monty" =>
            \E j \in 1..(i - 1) :
                /\ calls[j] =
                       Git(<<"submodule", "update", "--init", "--recursive",
                             "third_party/full-monty">>, "/repo")
                /\ results[j]

C4_Witness ==
    /\ Len(calls) >= 3
    /\ calls[3].cwd = "/repo/third_party/full-monty"
    /\ results[2]

\* C5: when the git remote listing does not name the fork remote, the run
\* raises "fork remote 'origin' is missing ..." right after the listing and
\* issues no further command, also when the upstream remote is listed.
C5_MissingForkRemoteStops ==
    (/\ Len(calls) = 4
     /\ last_outcome.ok
     /\ "origin" \notin Range(last_outcome.stdout))
        => /\ outcome = "raised"
           /\ error = "fork remote 'origin' is missing in third_party/full-monty"
           /\ calls[4] = Git(<<"remote">>, "/repo/third_party/full-monty")
           /\ ~ENABLED SyncNext

C5_Witness ==
    /\ Len(calls) = 4
    /\ last_outcome.ok
    /\ last_outcome.stdout = <<"upstream", "\n">>
    /\ outcome = "raised"

\* C6: make commands are issued only after git add <submodule path> returned
\* ok, one per configured target in configured order; when a gate fails the
\* error names that gate, and no later gate or any other command is issued.
MakeCalls == SelectSeq(calls, LAMBDA c : c.program = "make")

GateFailureMessages(target) ==
    {"verification gate '" \o target \o "' failed: 'make " \o target
        \o "' failed with exit code " \o ToString(c) \o ": " \o d :
        c \in {0, 1}, d \in {"no error detail", "fatal: boom", "output"}}

C6_GatesAfterStaging ==
    /\ \A i \in 1..Len(calls) :
           calls[i].program = "make" =>
               \E j \in 1..(i - 1) :
                   /\ calls[j] = Git(<<"add", "third_party/full-monty">>, "/repo")
                   /\ results[j]
                   /\ \A k \in (j + 1)..i : calls[k].program = "make"
    /\ Len(MakeCalls) <= Len(config.verification_targets)
    /\ \A n \in 1..Len(MakeCalls) :
           MakeCalls[n] = [program |-> "make",
                           args |-> <<config.verification_targets[n]>>,
                           cwd |-> "/repo"]
    /\ (Len(calls) > 0 /\ calls[Len(calls)].program = "make" /\ ~results[Len(calls)])
           => /\ outcome = "raised"
              /\ error \in GateFailureMessages(
                               config.verification_targets[Len(MakeCalls)])
              /\ ~ENABLED SyncNext

C6_Witness ==
    /\ config.verification_targets = <<"lint", "test">>
    /\ Len(MakeCalls) = 2
    /\ ~results[Len(calls)]
    /\ results[Len(calls) - 1]

\* C7 (as stated): on any failure the CLI prints "monty-sync error: <message>"
\* to stderr and exits 1, and it exits 0 only when run_monty_sync returned
\* without raising.
C7_AsStated ==
    pc = "exited" =>
        /\ exit_code = 0 => outcome = "returned"
        /\ exit_code /= 0 =>
               (exit_code = 1 /\ stderr_out = <<"monty-sync error: " \o error>>)

\* C7 (amended): when run_monty_sync raises MontySyncError the CLI prints
\* "monty-sync error: <message>" to stderr and returns 1, and it returns 1 in
\* no other case; it returns 0 only when run_monty_sync returned without
\* raising or when the only argument is -h or --help.
C7_Amended ==
    pc = "exited" =>
        /\ outcome = "raised" <=> exit_code = 1
        /\ outcome = "raised" => stderr_out = <<"monty-sync error: " \o error>>
        /\ outcome = "returned" => (exit_code = 0 /\ stderr_out = <<>>)
        /\ exit_code = 0 => (outcome = "returned" \/ argv \in {<<"-h">>, <<"--help">>})

C7_Witness ==
    /\ pc = "exited"
    /\ outcome = "raised"
    /\ exit_code = 1
    /\ Len(calls) = 15

\* C8: main accepts no argument but a single -h or --help: for that one it
\* returns 0; for any other non-empty argument list it prints "unsupported
\* arguments: ..." to stderr and returns 2; either way run_monty_sync is not
\* called and no command is invoked.
C8_ArgumentsRejected ==
    (entry = "main" /\ argv /= <<>>) =>
        /\ pc = "exited"
        /\ calls = <<>>
        /\ outcome = "none"
        /\ IF argv \in {<<"-h">>, <<"--help">>}
           THEN exit_code = 0 /\ stderr_out = <<>>
           ELSE /\ exit_code = 2
                /\ stderr_out = <<"unsupported arguments: " \o JoinSpace(argv)>>
                /\ argv = <<"--help", "extra">>
                       => stderr_out = <<"unsupported arguments: --help extra">>

C8_Witness ==
    /\ entry = "main"
    /\ argv = <<"-h", "--help">>
    /\ exit_code = 2
    /\ pc = "exited"

\* =========================================================================
\* scripts/verify_script_baseline.py
\* =========================================================================
\* A path is a sequence of names, an absolute one starting with the name
\* Slash; a name is a sequence of tokens ("_", an extension such as ".py", or
\* a run of other characters), so that prefixes and suffixes of names are
\* computed, not looked up.

\* ---------------------------------------------------------------- pathlib
Slash == <<"/">>

Extensions == {".py", ".txt"}

IsAbsolute(path) == path /= <<>> /\ path[1] = Slash

Cwd == <<Slash, <<"scripts">>>>

\* Path.resolve(): the absolute form of a path (no symlinks in the universe)
resolve(path) == IF IsAbsolute(path) THEN path ELSE Cwd \o path

\* Path.name, Path.parent, Path.suffix, Path.with_suffix("")
name_of(path) == path[Len(path)]

parent_of(path) == SubSeq(path, 1, Len(path) - 1)

suffix_of(path) ==
    LET n == name_of(path)
    IN IF Len(n) > 1 /\ n[Len(n)] \in Extensions THEN n[Len(n)] ELSE ""

without_suffix(path) ==
    LET n == name_of(path)
    IN IF suffix_of(path) = "" THEN path
       ELSE Append(parent_of(path), SubSeq(n, 1, Len(n) - 1))

\* Path.relative_to(root) raises ValueError unless the path is under root
is_under(path, root) == IsPrefix(root, path)

relative_to(path, root) == SubSeq(path, Len(root) + 1, Len(path))

\* str(path), as tokens and as a string
RECURSIVE JoinNames(_)
JoinNames(names) ==
    IF names = <<>> THEN <<>>
    ELSE IF Len(names) = 1 THEN names[1]
    ELSE names[1] \o <<"/">> \o JoinNames(Tail(names))

PathTokens(path) ==
    IF IsAbsolute(path) THEN <<"/">> \o JoinNames(Tail(path)) ELSE JoinNames(path)

PathStr(path) == Str(PathTokens(path))

\* ------------------------------------------------------- is_roadmap_script
is_roadmap_script_mutant_allows_tests(path, scripts_root) ==
    IF suffix_of(path) /= ".py" THEN [raises |-> FALSE, value |-> FALSE]
    ELSE IF name_of(path)[1] = "_" THEN [raises |-> FALSE, value |-> FALSE]
    ELSE IF ~is_under(path, scripts_root) THEN [raises |-> TRUE, value |-> FALSE]
    ELSE [raises |-> FALSE, value |-> TRUE]

\* raises: Path.relative_to raised ValueError; value: the result otherwise
is_roadmap_script(path, scripts_root) ==
    IF suffix_of(path) /= ".py" THEN [raises |-> FALSE, value |-> FALSE]
    ELSE IF name_of(path)[1] = "_" THEN [raises |-> FALSE, value |-> FALSE]
    ELSE IF name_of(path) = <<"_", "_", "init", "_", "_", ".py">>
         THEN [raises |-> FALSE, value |-> FALSE]
    ELSE IF ~is_under(path, scripts_root) THEN [raises |-> TRUE, value |-> FALSE]
    ELSE [raises |-> FALSE,
          value  |-> <<"tests">> \notin Range(relative_to(path, scripts_root))]

\* ------------------------------------------------------ expected_test_path
expected_test_path_mutant_flattened(script_path, scripts_root) ==
    LET relative_without_suffix == without_suffix(relative_to(script_path, scripts_root))
        joined == JoinNames(relative_without_suffix)
        flat == [i \in 1..Len(joined) |-> IF joined[i] = "/" THEN "_" ELSE joined[i]]
    IN scripts_root \o << <<"tests">> >> \o << <<"test", "_">> \o flat \o <<".py">> >>

expected_test_path(script_path, scripts_root) ==
    LET relative_without_suffix == without_suffix(relative_to(script_path, scripts_root))
    IN scripts_root \o << <<"tests">> >>
           \o parent_of(relative_without_suffix)
           \o << <<"test", "_">> \o name_of(relative_without_suffix) \o <<".py">> >>

\* ------------------------------------------------------------- filesystem
Root == <<Slash, <<"scripts">>>>

P_a == Root \o << <<"a", ".py">> >>
P_a_b == Root \o << <<"a">>, <<"b", ".py">> >>
P_helper == Root \o << <<"_", "helper", ".py">> >>
P_test_a == Root \o << <<"tests">>, <<"test", "_", "a", ".py">> >>
P_test_a_b == Root \o << <<"tests">>, <<"a">>, <<"test", "_", "b", ".py">> >>
P_pkg == Root \o << <<"pkg", ".py">> >>
P_outside == <<Slash, <<"other">>, <<"x", ".py">>>>
P_missing == Root \o << <<"missing", ".py">> >>
P_dir_a == Root \o << <<"a">> >>
P_tests == Root \o << <<"tests">> >>
P_tests_a == Root \o << <<"tests">>, <<"a">> >>

Missing == [kind |-> "missing", readable |-> FALSE, text |-> "none"]
Dir == [kind |-> "dir", readable |-> FALSE, text |-> "none"]
File(text) == [kind |-> "file", readable |-> TRUE, text |-> text]
Unreadable == [kind |-> "file", readable |-> FALSE, text |-> "none"]

\* Path.exists(), Path.is_file() on the filesystem f
exists(f, path) == path \in DOMAIN f /\ f[path].kind /= "missing"

is_file(f, path) == path \in DOMAIN f /\ f[path].kind = "file"

\* ------------------------------------------------------------ script text
\* The text of a script is a sequence of tokens: a token is a maximal run of
\* word characters [A-Za-z0-9_] or one other character.  The regular
\* expressions and substring tests of the source are evaluated on tokens.
Digits == {"0", "1", "2", "3", "4", "12", "13", "14"}

Quotes == {"'", "\""}

UV_SHEBANG ==
    <<"#", "!", "/", "usr", "/", "bin", "/", "env", " ", "-", "S", " ",
      "uv", " ", "run", " ", "python">>
UV_BLOCK_START == <<"#", " ", "/", "/", "/", " ", "script">>
UV_BLOCK_END == <<"#", " ", "/", "/", "/">>
REQUIRES_PYTHON == ">=3.13"

\* list.index(value, start): the first index >= start of a line equal to
\* value, 0 when there is none (ValueError)
RECURSIVE index_from(_, _, _)
index_from(lines, value, start) ==
    IF start > Len(lines) THEN 0
    ELSE IF lines[start] = value THEN start
    ELSE index_from(lines, value, start + 1)

\* the first position of token t in s, 0 when it does not occur
RECURSIVE find_token(_, _, _)
find_token(s, t, i) ==
    IF i > Len(s) THEN 0
    ELSE IF s[i] = t THEN i
    ELSE find_token(s, t, i + 1)

\* str.split(sep) for a one-character separator
RECURSIVE split_on(_, _)
split_on(s, sep) ==
    LET i == find_token(s, sep, 1)
    IN IF i = 0 THEN <<s>>
       ELSE <<SubSeq(s, 1, i - 1)>> \o split_on(SubSeq(s, i + 1, Len(s)), sep)

\* str.strip("'\""): drop quote characters at both ends
RECURSIVE strip_quotes(_)
strip_quotes(s) ==
    IF s /= <<>> /\ Head(s) \in Quotes THEN strip_quotes(Tail(s))
    ELSE IF s /= <<>> /\ s[Len(s)] \in Quotes
         THEN strip_quotes(SubSeq(s, 1, Len(s) - 1))
         ELSE s

\* str.removeprefix("#")
removeprefix_hash(line) ==
    IF line /= <<>> /\ Head(line) = "#" THEN Tail(line) ELSE line

\* ------------------------------------------------------- parse_uv_metadata
\* the mapping built from the lines of the block, later keys overwriting
RECURSIVE metadata_of(_, _)
metadata_of(block, metadata) ==
    IF block = <<>> THEN metadata
    ELSE LET cleaned == strip(removeprefix_hash(Head(block)))
             eq == find_token(cleaned, "=", 1)
         IN IF eq = 0 THEN metadata_of(Tail(block), metadata)
            ELSE LET key == Str(strip(SubSeq(cleaned, 1, eq - 1)))
                     raw_value == strip(SubSeq(cleaned, eq + 1, Len(cleaned)))
                 IN metadata_of(Tail(block), (key :> raw_value) @@ metadata)

parse_uv_metadata_mutant_no_end_marker(script_text) ==
    LET lines == splitlines(script_text)
        block_start == index_from(lines, UV_BLOCK_START, 1)
    IN IF block_start = 0 THEN <<>>
       ELSE metadata_of(SubSeq(lines, block_start + 1, Len(lines)), <<>>)

\* the empty mapping is <<>>
parse_uv_metadata(script_text) ==
    LET lines == splitlines(script_text)
        block_start == index_from(lines, UV_BLOCK_START, 1)
        block_end == IF block_start = 0 THEN 0
                     ELSE index_from(lines, UV_BLOCK_END, block_start + 1)
    IN IF block_start = 0 \/ block_end = 0 THEN <<>>
       ELSE metadata_of(SubSeq(lines, block_start + 1, block_end - 1), <<>>)

\* ------------------------------------------- _has_required_python_baseline
\* re.fullmatch(r">=\s*3\.13(?:\.\d+)?$", part)
RECURSIVE skip_spaces(_, _)
skip_spaces(s, i) == IF i <= Len(s) /\ IsSpace(s[i]) THEN skip_spaces(s, i + 1) ELSE i

matches_required_pattern(part) ==
    /\ Len(part) >= 2
    /\ part[1] = ">"
    /\ part[2] = "="
    /\ LET i == skip_spaces(part, 3)
           rest == SubSeq(part, i, Len(part))
       IN \/ rest = <<"3", ".", "13">>
          \/ /\ Len(rest) = 5
             /\ SubSeq(rest, 1, 4) = <<"3", ".", "13", ".">>
             /\ rest[5] \in Digits

has_required_python_baseline_mutant_any_floor(requires_python) ==
    LET cleaned == strip_quotes(strip(requires_python))
    IN Len(cleaned) >= 2 /\ cleaned[1] = ">" /\ cleaned[2] = "="

has_required_python_baseline(requires_python) ==
    LET cleaned == strip_quotes(strip(requires_python))
        parts == split_on(cleaned, ",")
    IN \E i \in 1..Len(parts) : matches_required_pattern(strip_quotes(strip(parts[i])))

\* --------------------------------------------------------------- issues
\* The message of an issue is a sequence of fragments (Str gives the text):
\* the report is sorted on the characters of paths and messages.
BaselineIssue(path, message) == [path |-> path, message |-> message]

\* ----------------------------------------------- validate_runtime_metadata
validate_runtime_metadata_mutant_no_block_check(path, script_text) ==
    LET lines == splitlines(script_text)
        shebang == IF lines /= <<>> THEN lines[1] ELSE <<>>
    IN IF shebang /= UV_SHEBANG
       THEN <<BaselineIssue(path,
                  <<"missing expected uv shebang '">> \o UV_SHEBANG \o <<"'">>)>>
       ELSE <<>>

\* the sub-checks go on after the missing-block issue
validate_runtime_metadata_mutant_no_stop(path, script_text) ==
    LET lines == splitlines(script_text)
        shebang == IF lines /= <<>> THEN lines[1] ELSE <<>>
        metadata == parse_uv_metadata(script_text)
    IN (IF shebang /= UV_SHEBANG
        THEN <<BaselineIssue(path,
                   <<"missing expected uv shebang '">> \o UV_SHEBANG \o <<"'">>)>>
        ELSE <<>>)
       \o (IF metadata = <<>>
           THEN <<BaselineIssue(path,
                      <<"missing uv metadata block ('# /// script' ... '# ///')">>)>>
           ELSE <<>>)
       \o (IF "requires-python" \notin DOMAIN metadata
              \/ ~has_required_python_baseline(metadata["requires-python"])
           THEN <<BaselineIssue(path,
                      <<"requires-python must include '", REQUIRES_PYTHON, "'">>)>>
           ELSE <<>>)
       \o (IF "dependencies" \notin DOMAIN metadata
           THEN <<BaselineIssue(path, <<"uv metadata must declare 'dependencies'">>)>>
           ELSE <<>>)

validate_runtime_metadata(path, script_text) ==
    LET lines == splitlines(script_text)
        shebang == IF lines /= <<>> THEN lines[1] ELSE <<>>
        shebang_issues ==
            IF shebang /= UV_SHEBANG
            THEN <<BaselineIssue(path,
                       <<"missing expected uv shebang '">> \o UV_SHEBANG \o <<"'">>)>>
            ELSE <<>>
        metadata == parse_uv_metadata(script_text)
    IN IF metadata = <<>>
       THEN shebang_issues
                \o <<BaselineIssue(path,
                         <<"missing uv metadata block ('# /// script' ... '# ///')">>)>>
       ELSE shebang_issues
                \o (IF "requires-python" \notin DOMAIN metadata
                       \/ ~has_required_python_baseline(metadata["requires-python"])
                    THEN <<BaselineIssue(path,
                               <<"requires-python must include '", REQUIRES_PYTHON, "'">>)>>
                    ELSE <<>>)
                \o (IF "dependencies" \notin DOMAIN metadata
                    THEN <<BaselineIssue(path,
                               <<"uv metadata must declare 'dependencies'">>)>>
                    ELSE <<>>)

\* -------------------------------------------------------- script catalogue
\* GENERATED by tools/gen_catalogue.py from the texts of the test suite
ScriptIds == {"broken", "missing_run", "subprocess", "valid"}

\* the scripts validate_script is called on directly
UnitScriptIds ==
    {"bare_run", "block_only", "broken", "comment_block", "cuprum_cmd",
     "cuprum_local", "deps_empty", "dot_run", "from_subprocess", "many",
     "missing_run", "near_miss", "no_deps", "no_requires", "os_popen", "os_system",
     "other_key", "patch", "plain_os_system", "plumbum", "py312", "py314", "ranged",
     "ranged312", "run_no_import", "sh_make_only", "shebang_only", "spaced",
     "subprocess", "syntax_norun", "syntax_run", "text_only_usage", "unquoted",
     "unscoped_norun", "unscoped_os_system", "unscoped_run", "unterminated",
     "valid"}

\* the text of each script of the catalogue
ScriptText(id) ==
    CASE id = "valid" ->
           <<"#", "!", "/", "usr", "/", "bin", "/", "env", " ", "-", "S", " ", "uv", " ",
             "run", " ", "python", "\n", "#", " ", "/", "/", "/", " ", "script", "\n",
             "#", " ", "requires", "-", "python", " ", "=", " ", "\"", ">", "=", "3",
             ".", "13", "\"", "\n", "#", " ", "dependencies", " ", "=", " ", "[", "\"",
             "cuprum", "=", "=", "0", ".", "1", ".", "0", "\"", "]", "\n", "#", " ", "/",
             "/", "/", "\n", "from", " ", "__future__", " ", "import", " ",
             "annotations", "\n", "from", " ", "cuprum", " ", "import", " ", "Program",
             ",", " ", "scoped", ",", " ", "sh", "\n", "TOFU", " ", "=", " ", "Program",
             "(", "\"", "tofu", "\"", ")", "\n", "tofu", " ", "=", " ", "sh", ".",
             "make", "(", "TOFU", ")", "\n", "with", " ", "scoped", "(", "allowlist",
             "=", "frozenset", "(", "[", "TOFU", "]", ")", ")", ":", "\n", " ", " ", " ",
             " ", "result", " ", "=", " ", "tofu", "(", "\"", "plan", "\"", ")", ".",
             "run_sync", "(", ")", "\n">>
      [] id = "broken" ->
           <<"from", " ", "__future__", " ", "import", " ", "annotations", "\n", "print",
             "(", "'", "broken", "'", ")", "\n">>
      [] id = "subprocess" ->
           <<"#", "!", "/", "usr", "/", "bin", "/", "env", " ", "-", "S", " ", "uv", " ",
             "run", " ", "python", "\n", "#", " ", "/", "/", "/", " ", "script", "\n",
             "#", " ", "requires", "-", "python", " ", "=", " ", "\"", ">", "=", "3",
             ".", "13", "\"", "\n", "#", " ", "dependencies", " ", "=", " ", "[", "\"",
             "cuprum", "=", "=", "0", ".", "1", ".", "0", "\"", "]", "\n", "#", " ", "/",
             "/", "/", "\n", "from", " ", "__future__", " ", "import", " ",
             "annotations", "\n", "from", " ", "cuprum", " ", "import", " ", "Program",
             ",", " ", "scoped", ",", " ", "sh", "\n", "TOFU", " ", "=", " ", "Program",
             "(", "\"", "tofu", "\"", ")", "\n", "tofu", " ", "=", " ", "sh", ".",
             "make", "(", "TOFU", ")", "\n", "with", " ", "scoped", "(", "allowlist",
             "=", "frozenset", "(", "[", "TOFU", "]", ")", ")", ":", "\n", " ", " ", " ",
             " ", "result", " ", "=", " ", "tofu", "(", "\"", "plan", "\"", ")", ".",
             "run_sync", "(", ")", "\n", "\n", "import", " ", "subprocess", "\n",
             "subprocess", ".", "run", "(", "[", "'", "echo", "'", "]", ")", "\n">>
      [] id = "missing_run" ->
           <<"#", "!", "/", "usr", "/", "bin", "/", "env", " ", "-", "S", " ", "uv", " ",
             "run", " ", "python", "\n", "#", " ", "/", "/", "/", " ", "script", "\n",
             "#", " ", "requires", "-", "python", " ", "=", " ", "\"", ">", "=", "3",
             ".", "13", "\"", "\n", "#", " ", "dependencies", " ", "=", " ", "[", "\"",
             "cuprum", "=", "=", "0", ".", "1", ".", "0", "\"", "]", "\n", "#", " ", "/",
             "/", "/", "\n", "from", " ", "cuprum", " ", "import", " ", "Program", ",",
             " ", "scoped", "\n", "TOFU", " ", "=", " ", "Program", "(", "\"", "tofu",
             "\"", ")", "\n", "with", " ", "scoped", "(", "allowlist", "=", "frozenset",
             "(", "[", "TOFU", "]", ")", ")", ":", "\n", " ", " ", " ", " ", "print",
             "(", "\"", "missing", " ", "run_sync", "\"", ")", "\n">>
      [] id = "shebang_only" ->
           <<"#", "!", "/", "usr", "/", "bin", "/", "env", " ", "-", "S", " ", "uv", " ",
             "run", " ", "python", "\n", "print", "(", "\"", "hello", "\"", ")", "\n">>
      [] id = "block_only" ->
           <<"#", " ", "/", "/", "/", " ", "script", "\n", "#", " ", "requires", "-",
             "python", " ", "=", " ", "\"", ">", "=", "3", ".", "13", "\"", "\n", "#",
             " ", "dependencies", " ", "=", " ", "[", "\"", "cuprum", "=", "=", "0", ".",
             "1", ".", "0", "\"", "]", "\n", "#", " ", "/", "/", "/", "\n", "print", "(",
             "\"", "hello", "\"", ")", "\n">>
      [] id = "unterminated" ->
           <<"#", "!", "/", "usr", "/", "bin", "/", "env", " ", "-", "S", " ", "uv", " ",
             "run", " ", "python", "\n", "#", " ", "/", "/", "/", " ", "script", "\n",
             "#", " ", "requires", "-", "python", " ", "=", " ", "\"", ">", "=", "3",
             ".", "13", "\"", "\n", "print", "(", "\"", "hello", "\"", ")", "\n">>
      [] id = "comment_block" ->
           <<"#", "!", "/", "usr", "/", "bin", "/", "env", " ", "-", "S", " ", "uv", " ",
             "run", " ", "python", "\n", "#", " ", "/", "/", "/", " ", "script", "\n",
             "#", " ", "no", " ", "keys", " ", "here", "\n", "#", " ", "/", "/", "/",
             "\n", "print", "(", "\"", "hello", "\"", ")", "\n">>
      [] id = "py312" ->
           <<"#", "!", "/", "usr", "/", "bin", "/", "env", " ", "-", "S", " ", "uv", " ",
             "run", " ", "python", "\n", "#", " ", "/", "/", "/", " ", "script", "\n",
             "#", " ", "requires", "-", "python", " ", "=", " ", "\"", ">", "=", "3",
             ".", "12", "\"", "\n", "#", " ", "dependencies", " ", "=", " ", "[", "\"",
             "cuprum", "=", "=", "0", ".", "1", ".", "0", "\"", "]", "\n", "#", " ", "/",
             "/", "/", "\n", "print", "(", "\"", "hello", "\"", ")", "\n">>
      [] id = "py314" ->
           <<"#", "!", "/", "usr", "/", "bin", "/", "env", " ", "-", "S", " ", "uv", " ",
             "run", " ", "python", "\n", "#", " ", "/", "/", "/", " ", "script", "\n",
             "#", " ", "requires", "-", "python", " ", "=", " ", "\"", ">", "=", "3",
             ".", "14", "\"", "\n", "#", " ", "dependencies", " ", "=", " ", "[", "\"",
             "cuprum", "=", "=", "0", ".", "1", ".", "0", "\"", "]", "\n", "#", " ", "/",
             "/", "/", "\n", "print", "(", "\"", "hello", "\"", ")", "\n">>
      [] id = "patch" ->
           <<"#", "!", "/", "usr", "/", "bin", "/", "env", " ", "-", "S", " ", "uv", " ",
             "run", " ", "python", "\n", "#", " ", "/", "/", "/", " ", "script", "\n",
             "#", " ", "requires", "-", "python", " ", "=", " ", "\"", ">", "=", "3",
             ".", "13", ".", "4", "\"", "\n", "#", " ", "dependencies", " ", "=", " ",
             "[", "\"", "cuprum", "=", "=", "0", ".", "1", ".", "0", "\"", "]", "\n",
             "#", " ", "/", "/", "/", "\n", "print", "(", "\"", "hello", "\"", ")", "\n">>
      [] id = "spaced" ->
           <<"#", "!", "/", "usr", "/", "bin", "/", "env", " ", "-", "S", " ", "uv", " ",
             "run", " ", "python", "\n", "#", " ", "/", "/", "/", " ", "script", "\n",
             "#", " ", "requires", "-", "python", " ", "=", " ", "\"", ">", "=", " ",
             "3", ".", "13", "\"", "\n", "#", " ", "dependencies", " ", "=", " ", "[",
             "\"", "cuprum", "=", "=", "0", ".", "1", ".", "0", "\"", "]", "\n", "#",
             " ", "/", "/", "/", "\n", "print", "(", "\"", "hello", "\"", ")", "\n">>
      [] id = "ranged" ->
           <<"#", "!", "/", "usr", "/", "bin", "/", "env", " ", "-", "S", " ", "uv", " ",
             "run", " ", "python", "\n", "#", " ", "/", "/", "/", " ", "script", "\n",
             "#", " ", "requires", "-", "python", " ", "=", " ", "\"", "<", "4", ",",
             " ", ">", "=", "3", ".", "13", "\"", "\n", "#", " ", "dependencies", " ",
             "=", " ", "[", "\"", "cuprum", "=", "=", "0", ".", "1", ".", "0", "\"", "]",
             "\n", "#", " ", "/", "/", "/", "\n", "print", "(", "\"", "hello", "\"", ")",
             "\n">>
      [] id = "ranged312" ->
           <<"#", "!", "/", "usr", "/", "bin", "/", "env", " ", "-", "S", " ", "uv", " ",
             "run", " ", "python", "\n", "#", " ", "/", "/", "/", " ", "script", "\n",
             "#", " ", "requires", "-", "python", " ", "=", " ", "\"", ">", "=", "3",
             ".", "12", ",", "<", "3", ".", "13", "\"", "\n", "#", " ", "dependencies",
             " ", "=", " ", "[", "\"", "cuprum", "=", "=", "0", ".", "1", ".", "0", "\"",
             "]", "\n", "#", " ", "/", "/", "/", "\n", "print", "(", "\"", "hello", "\"",
             ")", "\n">>
      [] id = "unquoted" ->
           <<"#", "!", "/", "usr", "/", "bin", "/", "env", " ", "-", "S", " ", "uv", " ",
             "run", " ", "python", "\n", "#", " ", "/", "/", "/", " ", "script", "\n",
             "#", " ", "requires", "-", "python", " ", "=", " ", ">", "=", "3", ".",
             "13", "\n", "#", " ", "dependencies", " ", "=", " ", "[", "\"", "cuprum",
             "=", "=", "0", ".", "1", ".", "0", "\"", "]", "\n", "#", " ", "/", "/", "/",
             "\n", "print", "(", "\"", "hello", "\"", ")", "\n">>
      [] id = "deps_empty" ->
           <<"#", "!", "/", "usr", "/", "bin", "/", "env", " ", "-", "S", " ", "uv", " ",
             "run", " ", "python", "\n", "#", " ", "/", "/", "/", " ", "script", "\n",
             "#", " ", "requires", "-", "python", " ", "=", " ", "\"", ">", "=", "3",
             ".", "13", "\"", "\n", "#", " ", "dependencies", " ", "=", "\n", "#", " ",
             "/", "/", "/", "\n", "print", "(", "\"", "hello", "\"", ")", "\n">>
      [] id = "other_key" ->
           <<"#", "!", "/", "usr", "/", "bin", "/", "env", " ", "-", "S", " ", "uv", " ",
             "run", " ", "python", "\n", "#", " ", "/", "/", "/", " ", "script", "\n",
             "#", " ", "name", " ", "=", " ", "\"", "x", "\"", "\n", "#", " ", "/", "/",
             "/", "\n", "print", "(", "\"", "hello", "\"", ")", "\n">>
      [] id = "no_deps" ->
           <<"#", "!", "/", "usr", "/", "bin", "/", "env", " ", "-", "S", " ", "uv", " ",
             "run", " ", "python", "\n", "#", " ", "/", "/", "/", " ", "script", "\n",
             "#", " ", "requires", "-", "python", " ", "=", " ", "\"", ">", "=", "3",
             ".", "13", "\"", "\n", "#", " ", "/", "/", "/", "\n", "print", "(", "\"",
             "hello", "\"", ")", "\n">>
      [] id = "no_requires" ->
           <<"#", "!", "/", "usr", "/", "bin", "/", "env", " ", "-", "S", " ", "uv", " ",
             "run", " ", "python", "\n", "#", " ", "/", "/", "/", " ", "script", "\n",
             "#", " ", "dependencies", " ", "=", " ", "[", "\"", "cuprum", "=", "=", "0",
             ".", "1", ".", "0", "\"", "]", "\n", "#", " ", "/", "/", "/", "\n", "print",
             "(", "\"", "hello", "\"", ")", "\n">>
      [] id = "from_subprocess" ->
           <<"#", "!", "/", "usr", "/", "bin", "/", "env", " ", "-", "S", " ", "uv", " ",
             "run", " ", "python", "\n", "#", " ", "/", "/", "/", " ", "script", "\n",
             "#", " ", "requires", "-", "python", " ", "=", " ", "\"", ">", "=", "3",
             ".", "13", "\"", "\n", "#", " ", "dependencies", " ", "=", " ", "[", "\"",
             "cuprum", "=", "=", "0", ".", "1", ".", "0", "\"", "]", "\n", "#", " ", "/",
             "/", "/", "\n", "from", " ", "__future__", " ", "import", " ",
             "annotations", "\n", "from", " ", "cuprum", " ", "import", " ", "Program",
             ",", " ", "scoped", ",", " ", "sh", "\n", "TOFU", " ", "=", " ", "Program",
             "(", "\"", "tofu", "\"", ")", "\n", "tofu", " ", "=", " ", "sh", ".",
             "make", "(", "TOFU", ")", "\n", "with", " ", "scoped", "(", "allowlist",
             "=", "frozenset", "(", "[", "TOFU", "]", ")", ")", ":", "\n", " ", " ", " ",
             " ", "result", " ", "=", " ", "tofu", "(", "\"", "plan", "\"", ")", ".",
             "run_sync", "(", ")", "\n", "\n", "from", " ", "subprocess", " ", "import",
             " ", "run", "\n">>
      [] id = "plumbum" ->
           <<"#", "!", "/", "usr", "/", "bin", "/", "env", " ", "-", "S", " ", "uv", " ",
             "run", " ", "python", "\n", "#", " ", "/", "/", "/", " ", "script", "\n",
             "#", " ", "requires", "-", "python", " ", "=", " ", "\"", ">", "=", "3",
             ".", "13", "\"", "\n", "#", " ", "dependencies", " ", "=", " ", "[", "\"",
             "cuprum", "=", "=", "0", ".", "1", ".", "0", "\"", "]", "\n", "#", " ", "/",
             "/", "/", "\n", "from", " ", "__future__", " ", "import", " ",
             "annotations", "\n", "from", " ", "cuprum", " ", "import", " ", "Program",
             ",", " ", "scoped", ",", " ", "sh", "\n", "TOFU", " ", "=", " ", "Program",
             "(", "\"", "tofu", "\"", ")", "\n", "tofu", " ", "=", " ", "sh", ".",
             "make", "(", "TOFU", ")", "\n", "with", " ", "scoped", "(", "allowlist",
             "=", "frozenset", "(", "[", "TOFU", "]", ")", ")", ":", "\n", " ", " ", " ",
             " ", "result", " ", "=", " ", "tofu", "(", "\"", "plan", "\"", ")", ".",
             "run_sync", "(", ")", "\n", "\n", "import", " ", "plumbum", "\n">>
      [] id = "cuprum_local" ->
           <<"#", "!", "/", "usr", "/", "bin", "/", "env", " ", "-", "S", " ", "uv", " ",
             "run", " ", "python", "\n", "#", " ", "/", "/", "/", " ", "script", "\n",
             "#", " ", "requires", "-", "python", " ", "=", " ", "\"", ">", "=", "3",
             ".", "13", "\"", "\n", "#", " ", "dependencies", " ", "=", " ", "[", "\"",
             "cuprum", "=", "=", "0", ".", "1", ".", "0", "\"", "]", "\n", "#", " ", "/",
             "/", "/", "\n", "from", " ", "__future__", " ", "import", " ",
             "annotations", "\n", "from", " ", "cuprum", " ", "import", " ", "Program",
             ",", " ", "scoped", ",", " ", "sh", "\n", "TOFU", " ", "=", " ", "Program",
             "(", "\"", "tofu", "\"", ")", "\n", "tofu", " ", "=", " ", "sh", ".",
             "make", "(", "TOFU", ")", "\n", "with", " ", "scoped", "(", "allowlist",
             "=", "frozenset", "(", "[", "TOFU", "]", ")", ")", ":", "\n", " ", " ", " ",
             " ", "result", " ", "=", " ", "tofu", "(", "\"", "plan", "\"", ")", ".",
             "run_sync", "(", ")", "\n", "\n", "from", " ", "cuprum", " ", "import", " ",
             "local", "\n">>
      [] id = "cuprum_cmd" ->
           <<"#", "!", "/", "usr", "/", "bin", "/", "env", " ", "-", "S", " ", "uv", " ",
             "run", " ", "python", "\n", "#", " ", "/", "/", "/", " ", "script", "\n",
             "#", " ", "requires", "-", "python", " ", "=", " ", "\"", ">", "=", "3",
             ".", "13", "\"", "\n", "#", " ", "dependencies", " ", "=", " ", "[", "\"",
             "cuprum", "=", "=", "0", ".", "1", ".", "0", "\"", "]", "\n", "#", " ", "/",
             "/", "/", "\n", "from", " ", "__future__", " ", "import", " ",
             "annotations", "\n", "from", " ", "cuprum", " ", "import", " ", "Program",
             ",", " ", "scoped", ",", " ", "sh", "\n", "TOFU", " ", "=", " ", "Program",
             "(", "\"", "tofu", "\"", ")", "\n", "tofu", " ", "=", " ", "sh", ".",
             "make", "(", "TOFU", ")", "\n", "with", " ", "scoped", "(", "allowlist",
             "=", "frozenset", "(", "[", "TOFU", "]", ")", ")", ":", "\n", " ", " ", " ",
             " ", "result", " ", "=", " ", "tofu", "(", "\"", "plan", "\"", ")", ".",
             "run_sync", "(", ")", "\n", "\n", "from", " ", "cuprum", ".", "cmd", " ",
             "import", " ", "git", "\n">>
      [] id = "os_system" ->
           <<"#", "!", "/", "usr", "/", "bin", "/", "env", " ", "-", "S", " ", "uv", " ",
             "run", " ", "python", "\n", "#", " ", "/", "/", "/", " ", "script", "\n",
             "#", " ", "requires", "-", "python", " ", "=", " ", "\"", ">", "=", "3",
             ".", "13", "\"", "\n", "#", " ", "dependencies", " ", "=", " ", "[", "\"",
             "cuprum", "=", "=", "0", ".", "1", ".", "0", "\"", "]", "\n", "#", " ", "/",
             "/", "/", "\n", "from", " ", "__future__", " ", "import", " ",
             "annotations", "\n", "from", " ", "cuprum", " ", "import", " ", "Program",
             ",", " ", "scoped", ",", " ", "sh", "\n", "TOFU", " ", "=", " ", "Program",
             "(", "\"", "tofu", "\"", ")", "\n", "tofu", " ", "=", " ", "sh", ".",
             "make", "(", "TOFU", ")", "\n", "with", " ", "scoped", "(", "allowlist",
             "=", "frozenset", "(", "[", "TOFU", "]", ")", ")", ":", "\n", " ", " ", " ",
             " ", "result", " ", "=", " ", "tofu", "(", "\"", "plan", "\"", ")", ".",
             "run_sync", "(", ")", "\n", "\n", "import", " ", "os", "\n", "os", ".",
             "system", "(", "'", "echo", " ", "hi", "'", ")", "\n">>
      [] id = "os_popen" ->
           <<"#", "!", "/", "usr", "/", "bin", "/", "env", " ", "-", "S", " ", "uv", " ",
             "run", " ", "python", "\n", "#", " ", "/", "/", "/", " ", "script", "\n",
             "#", " ", "requires", "-", "python", " ", "=", " ", "\"", ">", "=", "3",
             ".", "13", "\"", "\n", "#", " ", "dependencies", " ", "=", " ", "[", "\"",
             "cuprum", "=", "=", "0", ".", "1", ".", "0", "\"", "]", "\n", "#", " ", "/",
             "/", "/", "\n", "from", " ", "__future__", " ", "import", " ",
             "annotations", "\n", "from", " ", "cuprum", " ", "import", " ", "Program",
             ",", " ", "scoped", ",", " ", "sh", "\n", "TOFU", " ", "=", " ", "Program",
             "(", "\"", "tofu", "\"", ")", "\n", "tofu", " ", "=", " ", "sh", ".",
             "make", "(", "TOFU", ")", "\n", "with", " ", "scoped", "(", "allowlist",
             "=", "frozenset", "(", "[", "TOFU", "]", ")", ")", ":", "\n", " ", " ", " ",
             " ", "result", " ", "=", " ", "tofu", "(", "\"", "plan", "\"", ")", ".",
             "run_sync", "(", ")", "\n", "\n", "import", " ", "os", "\n", "os", ".",
             "popen", "(", "'", "echo", " ", "hi", "'", ")", "\n">>
      [] id = "many" ->
           <<"#", "!", "/", "usr", "/", "bin", "/", "env", " ", "-", "S", " ", "uv", " ",
             "run", " ", "python", "\n", "#", " ", "/", "/", "/", " ", "script", "\n",
             "#", " ", "requires", "-", "python", " ", "=", " ", "\"", ">", "=", "3",
             ".", "13", "\"", "\n", "#", " ", "dependencies", " ", "=", " ", "[", "\"",
             "cuprum", "=", "=", "0", ".", "1", ".", "0", "\"", "]", "\n", "#", " ", "/",
             "/", "/", "\n", "from", " ", "__future__", " ", "import", " ",
             "annotations", "\n", "from", " ", "cuprum", " ", "import", " ", "Program",
             ",", " ", "scoped", ",", " ", "sh", "\n", "TOFU", " ", "=", " ", "Program",
             "(", "\"", "tofu", "\"", ")", "\n", "tofu", " ", "=", " ", "sh", ".",
             "make", "(", "TOFU", ")", "\n", "with", " ", "scoped", "(", "allowlist",
             "=", "frozenset", "(", "[", "TOFU", "]", ")", ")", ":", "\n", " ", " ", " ",
             " ", "result", " ", "=", " ", "tofu", "(", "\"", "plan", "\"", ")", ".",
             "run_sync", "(", ")", "\n", "\n", "import", " ", "subprocess", "\n", "if",
             " ", "True", ":", "\n", " ", " ", " ", " ", "import", " ", "subprocess",
             "\n", "from", " ", "subprocess", " ", "import", " ", "run", "\n",
             "subprocess", ".", "run", "(", "[", "'", "a", "'", "]", ")", "\n",
             "subprocess", ".", "call", "(", "[", "'", "b", "'", "]", ")", "\n", "os",
             ".", "system", "(", "'", "x", "'", ")", "\n", "os", ".", "popen", "(", "'",
             "y", "'", ")", "\n">>
      [] id = "near_miss" ->
           <<"#", "!", "/", "usr", "/", "bin", "/", "env", " ", "-", "S", " ", "uv", " ",
             "run", " ", "python", "\n", "#", " ", "/", "/", "/", " ", "script", "\n",
             "#", " ", "requires", "-", "python", " ", "=", " ", "\"", ">", "=", "3",
             ".", "13", "\"", "\n", "#", " ", "dependencies", " ", "=", " ", "[", "\"",
             "cuprum", "=", "=", "0", ".", "1", ".", "0", "\"", "]", "\n", "#", " ", "/",
             "/", "/", "\n", "from", " ", "__future__", " ", "import", " ",
             "annotations", "\n", "from", " ", "cuprum", " ", "import", " ", "Program",
             ",", " ", "scoped", ",", " ", "sh", "\n", "TOFU", " ", "=", " ", "Program",
             "(", "\"", "tofu", "\"", ")", "\n", "tofu", " ", "=", " ", "sh", ".",
             "make", "(", "TOFU", ")", "\n", "with", " ", "scoped", "(", "allowlist",
             "=", "frozenset", "(", "[", "TOFU", "]", ")", ")", ":", "\n", " ", " ", " ",
             " ", "result", " ", "=", " ", "tofu", "(", "\"", "plan", "\"", ")", ".",
             "run_sync", "(", ")", "\n", "\n", "import", " ", "subprocessing", "\n",
             "mysubprocess", ".", "run", "(", "[", "'", "x", "'", "]", ")", "\n", "myos",
             ".", "system", "(", "'", "x", "'", ")", "\n", "#", " ", "import", " ",
             "plumbum", "\n", "from", " ", "cuprum", " ", "import", " ", "localhost",
             "\n">>
      [] id = "unscoped_run" ->
           <<"#", "!", "/", "usr", "/", "bin", "/", "env", " ", "-", "S", " ", "uv", " ",
             "run", " ", "python", "\n", "#", " ", "/", "/", "/", " ", "script", "\n",
             "#", " ", "requires", "-", "python", " ", "=", " ", "\"", ">", "=", "3",
             ".", "13", "\"", "\n", "#", " ", "dependencies", " ", "=", " ", "[", "\"",
             "cuprum", "=", "=", "0", ".", "1", ".", "0", "\"", "]", "\n", "#", " ", "/",
             "/", "/", "\n", "from", " ", "cuprum", " ", "import", " ", "Program", ",",
             " ", "sh", "\n", "TOFU", " ", "=", " ", "Program", "(", "\"", "tofu", "\"",
             ")", "\n", "tofu", " ", "=", " ", "sh", ".", "make", "(", "TOFU", ")", "\n",
             "result", " ", "=", " ", "tofu", "(", "\"", "plan", "\"", ")", ".",
             "run_sync", "(", ")", "\n">>
      [] id = "unscoped_norun" ->
           <<"#", "!", "/", "usr", "/", "bin", "/", "env", " ", "-", "S", " ", "uv", " ",
             "run", " ", "python", "\n", "#", " ", "/", "/", "/", " ", "script", "\n",
             "#", " ", "requires", "-", "python", " ", "=", " ", "\"", ">", "=", "3",
             ".", "13", "\"", "\n", "#", " ", "dependencies", " ", "=", " ", "[", "\"",
             "cuprum", "=", "=", "0", ".", "1", ".", "0", "\"", "]", "\n", "#", " ", "/",
             "/", "/", "\n", "from", " ", "cuprum", " ", "import", " ", "Program", "\n",
             "TOFU", " ", "=", " ", "Program", "(", "\"", "tofu", "\"", ")", "\n",
             "print", "(", "TOFU", ")", "\n">>
      [] id = "plain_os_system" ->
           <<"#", "!", "/", "usr", "/", "bin", "/", "env", " ", "-", "S", " ", "uv", " ",
             "run", " ", "python", "\n", "#", " ", "/", "/", "/", " ", "script", "\n",
             "#", " ", "requires", "-", "python", " ", "=", " ", "\"", ">", "=", "3",
             ".", "13", "\"", "\n", "#", " ", "dependencies", " ", "=", " ", "[", "\"",
             "cuprum", "=", "=", "0", ".", "1", ".", "0", "\"", "]", "\n", "#", " ", "/",
             "/", "/", "\n", "import", " ", "os", "\n", "os", ".", "system", "(", "'",
             "echo", " ", "hi", "'", ")", "\n">>
      [] id = "unscoped_os_system" ->
           <<"#", "!", "/", "usr", "/", "bin", "/", "env", " ", "-", "S", " ", "uv", " ",
             "run", " ", "python", "\n", "#", " ", "/", "/", "/", " ", "script", "\n",
             "#", " ", "requires", "-", "python", " ", "=", " ", "\"", ">", "=", "3",
             ".", "13", "\"", "\n", "#", " ", "dependencies", " ", "=", " ", "[", "\"",
             "cuprum", "=", "=", "0", ".", "1", ".", "0", "\"", "]", "\n", "#", " ", "/",
             "/", "/", "\n", "from", " ", "cuprum", " ", "import", " ", "Program", "\n",
             "import", " ", "os", "\n", "TOFU", " ", "=", " ", "Program", "(", "\"",
             "tofu", "\"", ")", "\n", "os", ".", "system", "(", "'", "echo", " ", "hi",
             "'", ")", "\n">>
      [] id = "dot_run" ->
           <<"#", "!", "/", "usr", "/", "bin", "/", "env", " ", "-", "S", " ", "uv", " ",
             "run", " ", "python", "\n", "#", " ", "/", "/", "/", " ", "script", "\n",
             "#", " ", "requires", "-", "python", " ", "=", " ", "\"", ">", "=", "3",
             ".", "13", "\"", "\n", "#", " ", "dependencies", " ", "=", " ", "[", "\"",
             "cuprum", "=", "=", "0", ".", "1", ".", "0", "\"", "]", "\n", "#", " ", "/",
             "/", "/", "\n", "from", " ", "cuprum", " ", "import", " ", "Program", ",",
             " ", "scoped", "\n", "TOFU", " ", "=", " ", "Program", "(", "\"", "tofu",
             "\"", ")", "\n", "with", " ", "scoped", "(", "allowlist", "=", "frozenset",
             "(", "[", "TOFU", "]", ")", ")", ":", "\n", " ", " ", " ", " ", "TOFU", ".",
             "run", "(", ")", "\n">>
      [] id = "sh_make_only" ->
           <<"#", "!", "/", "usr", "/", "bin", "/", "env", " ", "-", "S", " ", "uv", " ",
             "run", " ", "python", "\n", "#", " ", "/", "/", "/", " ", "script", "\n",
             "#", " ", "requires", "-", "python", " ", "=", " ", "\"", ">", "=", "3",
             ".", "13", "\"", "\n", "#", " ", "dependencies", " ", "=", " ", "[", "\"",
             "cuprum", "=", "=", "0", ".", "1", ".", "0", "\"", "]", "\n", "#", " ", "/",
             "/", "/", "\n", "from", " ", "cuprum", " ", "import", " ", "scoped", ",",
             " ", "sh", "\n", "tofu", " ", "=", " ", "sh", ".", "make", "(", "\"",
             "tofu", "\"", ")", "\n", "with", " ", "scoped", "(", "allowlist", "=",
             "frozenset", "(", ")", ")", ":", "\n", " ", " ", " ", " ", "tofu", "(",
             "\"", "plan", "\"", ")", ".", "run_sync", "(", ")", "\n">>
      [] id = "run_no_import" ->
           <<"#", "!", "/", "usr", "/", "bin", "/", "env", " ", "-", "S", " ", "uv", " ",
             "run", " ", "python", "\n", "#", " ", "/", "/", "/", " ", "script", "\n",
             "#", " ", "requires", "-", "python", " ", "=", " ", "\"", ">", "=", "3",
             ".", "13", "\"", "\n", "#", " ", "dependencies", " ", "=", " ", "[", "\"",
             "cuprum", "=", "=", "0", ".", "1", ".", "0", "\"", "]", "\n", "#", " ", "/",
             "/", "/", "\n", "from", " ", "helpers", " ", "import", " ", "Program", ",",
             " ", "scoped", "\n", "TOFU", " ", "=", " ", "Program", "(", "\"", "tofu",
             "\"", ")", "\n", "with", " ", "scoped", "(", "allowlist", "=", "frozenset",
             "(", "[", "TOFU", "]", ")", ")", ":", "\n", " ", " ", " ", " ", "TOFU", ".",
             "run_sync", "(", ")", "\n">>
      [] id = "bare_run" ->
           <<"#", "!", "/", "usr", "/", "bin", "/", "env", " ", "-", "S", " ", "uv", " ",
             "run", " ", "python", "\n", "#", " ", "/", "/", "/", " ", "script", "\n",
             "#", " ", "requires", "-", "python", " ", "=", " ", "\"", ">", "=", "3",
             ".", "13", "\"", "\n", "#", " ", "dependencies", " ", "=", " ", "[", "\"",
             "cuprum", "=", "=", "0", ".", "1", ".", "0", "\"", "]", "\n", "#", " ", "/",
             "/", "/", "\n", "from", " ", "cuprum", " ", "import", " ", "Program", ",",
             " ", "scoped", "\n", "TOFU", " ", "=", " ", "Program", "(", "\"", "tofu",
             "\"", ")", "\n", "with", " ", "scoped", "(", "allowlist", "=", "frozenset",
             "(", "[", "TOFU", "]", ")", ")", ":", "\n", " ", " ", " ", " ", "run", "(",
             "TOFU", ")", "\n">>
      [] id = "syntax_norun" ->
           <<"#", "!", "/", "usr", "/", "bin", "/", "env", " ", "-", "S", " ", "uv", " ",
             "run", " ", "python", "\n", "#", " ", "/", "/", "/", " ", "script", "\n",
             "#", " ", "requires", "-", "python", " ", "=", " ", "\"", ">", "=", "3",
             ".", "13", "\"", "\n", "#", " ", "dependencies", " ", "=", " ", "[", "\"",
             "cuprum", "=", "=", "0", ".", "1", ".", "0", "\"", "]", "\n", "#", " ", "/",
             "/", "/", "\n", "from", " ", "cuprum", " ", "import", " ", "Program", ",",
             " ", "scoped", "\n", "TOFU", " ", "=", " ", "Program", "(", "\"", "tofu",
             "\"", "\n", "with", " ", "scoped", "(", "allowlist", "=", "frozenset", "(",
             "[", "TOFU", "]", ")", ")", ":", "\n", " ", " ", " ", " ", "pass", "\n">>
      [] id = "syntax_run" ->
           <<"#", "!", "/", "usr", "/", "bin", "/", "env", " ", "-", "S", " ", "uv", " ",
             "run", " ", "python", "\n", "#", " ", "/", "/", "/", " ", "script", "\n",
             "#", " ", "requires", "-", "python", " ", "=", " ", "\"", ">", "=", "3",
             ".", "13", "\"", "\n", "#", " ", "dependencies", " ", "=", " ", "[", "\"",
             "cuprum", "=", "=", "0", ".", "1", ".", "0", "\"", "]", "\n", "#", " ", "/",
             "/", "/", "\n", "from", " ", "cuprum", " ", "import", " ", "Program", ",",
             " ", "scoped", "\n", "TOFU", " ", "=", " ", "Program", "(", "\"", "tofu",
             "\"", "\n", "with", " ", "scoped", "(", "allowlist", "=", "frozenset", "(",
             "[", "TOFU", "]", ")", ")", ":", "\n", " ", " ", " ", " ", "TOFU", ".",
             "run_sync", "(", ")", "\n">>
      [] id = "text_only_usage" ->
           <<"#", "!", "/", "usr", "/", "bin", "/", "env", " ", "-", "S", " ", "uv", " ",
             "run", " ", "python", "\n", "#", " ", "/", "/", "/", " ", "script", "\n",
             "#", " ", "requires", "-", "python", " ", "=", " ", "\"", ">", "=", "3",
             ".", "13", "\"", "\n", "#", " ", "dependencies", " ", "=", " ", "[", "\"",
             "cuprum", "=", "=", "0", ".", "1", ".", "0", "\"", "]", "\n", "#", " ", "/",
             "/", "/", "\n", "#", " ", "a", " ", "script", " ", "would", " ", "call",
             " ", "Program", "(", "\"", "tofu", "\"", ")", " ", "here", "\n", "print",
             "(", "\"", "hello", "\"", ")", "\n">>

\* what astroid.parse gives for each: ok is FALSE on AstroidSyntaxError;
\* calls are the callees of the Call nodes, imports and from_modules the
\* modules of the Import and ImportFrom statements of the module body
ScriptAst(id) ==
    CASE id = "valid" ->
           [ok |-> TRUE,
            calls |->
               {[kind |-> "Attribute", name |-> "make", expr |-> "sh"],
                [kind |-> "Attribute", name |-> "run_sync", expr |-> ""],
                [kind |-> "Name", name |-> "Program", expr |-> ""],
                [kind |-> "Name", name |-> "frozenset", expr |-> ""],
                [kind |-> "Name", name |-> "scoped", expr |-> ""],
                [kind |-> "Name", name |-> "tofu", expr |-> ""]},
            imports |-> {},
            from_modules |-> {"__future__", "cuprum"}]
      [] id = "broken" ->
           [ok |-> TRUE,
            calls |->
               {[kind |-> "Name", name |-> "print", expr |-> ""]},
            imports |-> {},
            from_modules |-> {"__future__"}]
      [] id = "subprocess" ->
           [ok |-> TRUE,
            calls |->
               {[kind |-> "Attribute", name |-> "make", expr |-> "sh"],
                [kind |-> "Attribute", name |-> "run", expr |-> "subprocess"],
                [kind |-> "Attribute", name |-> "run_sync", expr |-> ""],
                [kind |-> "Name", name |-> "Program", expr |-> ""],
                [kind |-> "Name", name |-> "frozenset", expr |-> ""],
                [kind |-> "Name", name |-> "scoped", expr |-> ""],
                [kind |-> "Name", name |-> "tofu", expr |-> ""]},
            imports |-> {"subprocess"},
            from_modules |-> {"__future__", "cuprum"}]
      [] id = "missing_run" ->
           [ok |-> TRUE,
            calls |->
               {[kind |-> "Name", name |-> "Program", expr |-> ""],
                [kind |-> "Name", name |-> "frozenset", expr |-> ""],
                [kind |-> "Name", name |-> "print", expr |-> ""],
                [kind |-> "Name", name |-> "scoped", expr |-> ""]},
            imports |-> {},
            from_modules |-> {"cuprum"}]
      [] id = "shebang_only" ->
           [ok |-> TRUE,
            calls |->
               {[kind |-> "Name", name |-> "print", expr |-> ""]},
            imports |-> {},
            from_modules |-> {}]
      [] id = "block_only" ->
           [ok |-> TRUE,
            calls |->
               {[kind |-> "Name", name |-> "print", expr |-> ""]},
            imports |-> {},
            from_modules |-> {}]
      [] id = "unterminated" ->
           [ok |-> TRUE,
            calls |->
               {[kind |-> "Name", name |-> "print", expr |-> ""]},
            imports |-> {},
            from_modules |-> {}]
      [] id = "comment_block" ->
           [ok |-> TRUE,
            calls |->
               {[kind |-> "Name", name |-> "print", expr |-> ""]},
            imports |-> {},
            from_modules |-> {}]
      [] id = "py312" ->
           [ok |-> TRUE,
            calls |->
               {[kind |-> "Name", name |-> "print", expr |-> ""]},
            imports |-> {},
            from_modules |-> {}]
      [] id = "py314" ->
           [ok |-> TRUE,
            calls |->
               {[kind |-> "Name", name |-> "print", expr |-> ""]},
            imports |-> {},
            from_modules |-> {}]
      [] id = "patch" ->
           [ok |-> TRUE,
            calls |->
               {[kind |-> "Name", name |-> "print", expr |-> ""]},
            imports |-> {},
            from_modules |-> {}]
      [] id = "spaced" ->
           [ok |-> TRUE,
            calls |->
               {[kind |-> "Name", name |-> "print", expr |-> ""]},
            imports |-> {},
            from_modules |-> {}]
      [] id = "ranged" ->
           [ok |-> TRUE,
            calls |->
               {[kind |-> "Name", name |-> "print", expr |-> ""]},
            imports |-> {},
            from_modules |-> {}]
      [] id = "ranged312" ->
           [ok |-> TRUE,
            calls |->
               {[kind |-> "Name", name |-> "print", expr |-> ""]},
            imports |-> {},
            from_modules |-> {}]
      [] id = "unquoted" ->
           [ok |-> TRUE,
            calls |->
               {[kind |-> "Name", name |-> "print", expr |-> ""]},
            imports |-> {},
            from_modules |-> {}]
      [] id = "deps_empty" ->
           [ok |-> TRUE,
            calls |->
               {[kind |-> "Name", name |-> "print", expr |-> ""]},
            imports |-> {},
            from_modules |-> {}]
      [] id = "other_key" ->
           [ok |-> TRUE,
            calls |->
               {[kind |-> "Name", name |-> "print", expr |-> ""]},
            imports |-> {},
            from_modules |-> {}]
      [] id = "no_deps" ->
           [ok |-> TRUE,
            calls |->
               {[kind |-> "Name", name |-> "print", expr |-> ""]},
            imports |-> {},
            from_modules |-> {}]
      [] id = "no_requires" ->
           [ok |-> TRUE,
            calls |->
               {[kind |-> "Name", name |-> "print", expr |-> ""]},
            imports |-> {},
            from_modules |-> {}]
      [] id = "from_subprocess" ->
           [ok |-> TRUE,
            calls |->
               {[kind |-> "Attribute", name |-> "make", expr |-> "sh"],
                [kind |-> "Attribute", name |-> "run_sync", expr |-> ""],
                [kind |-> "Name", name |-> "Program", expr |-> ""],
                [kind |-> "Name", name |-> "frozenset", expr |-> ""],
                [kind |-> "Name", name |-> "scoped", expr |-> ""],
                [kind |-> "Name", name |-> "tofu", expr |-> ""]},
            imports |-> {},
            from_modules |-> {"__future__", "cuprum", "subprocess"}]
      [] id = "plumbum" ->
           [ok |-> TRUE,
            calls |->
               {[kind |-> "Attribute", name |-> "make", expr |-> "sh"],
                [kind |-> "Attribute", name |-> "run_sync", expr |-> ""],
                [kind |-> "Name", name |-> "Program", expr |-> ""],
                [kind |-> "Name", name |-> "frozenset", expr |-> ""],
                [kind |-> "Name", name |-> "scoped", expr |-> ""],
                [kind |-> "Name", name |-> "tofu", expr |-> ""]},
            imports |-> {"plumbum"},
            from_modules |-> {"__future__", "cuprum"}]
      [] id = "cuprum_local" ->
           [ok |-> TRUE,
            calls |->
               {[kind |-> "Attribute", name |-> "make", expr |-> "sh"],
                [kind |-> "Attribute", name |-> "run_sync", expr |-> ""],
                [kind |-> "Name", name |-> "Program", expr |-> ""],
                [kind |-> "Name", name |-> "frozenset", expr |-> ""],
                [kind |-> "Name", name |-> "scoped", expr |-> ""],
                [kind |-> "Name", name |-> "tofu", expr |-> ""]},
            imports |-> {},
            from_modules |-> {"__future__", "cuprum"}]
      [] id = "cuprum_cmd" ->
           [ok |-> TRUE,
            calls |->
               {[kind |-> "Attribute", name |-> "make", expr |-> "sh"],
                [kind |-> "Attribute", name |-> "run_sync", expr |-> ""],
                [kind |-> "Name", name |-> "Program", expr |-> ""],
                [kind |-> "Name", name |-> "frozenset", expr |-> ""],
                [kind |-> "Name", name |-> "scoped", expr |-> ""],
                [kind |-> "Name", name |-> "tofu", expr |-> ""]},
            imports |-> {},
            from_modules |-> {"__future__", "cuprum", "cuprum.cmd"}]
      [] id = "os_system" ->
           [ok |-> TRUE,
            calls |->
               {[kind |-> "Attribute", name |-> "make", expr |-> "sh"],
                [kind |-> "Attribute", name |-> "run_sync", expr |-> ""],
                [kind |-> "Attribute", name |-> "system", expr |-> "os"],
                [kind |-> "Name", name |-> "Program", expr |-> ""],
                [kind |-> "Name", name |-> "frozenset", expr |-> ""],
                [kind |-> "Name", name |-> "scoped", expr |-> ""],
                [kind |-> "Name", name |-> "tofu", expr |-> ""]},
            imports |-> {"os"},
            from_modules |-> {"__future__", "cuprum"}]
      [] id = "os_popen" ->
           [ok |-> TRUE,
            calls |->
               {[kind |-> "Attribute", name |-> "make", expr |-> "sh"],
                [kind |-> "Attribute", name |-> "popen", expr |-> "os"],
                [kind |-> "Attribute", name |-> "run_sync", expr |-> ""],
                [kind |-> "Name", name |-> "Program", expr |-> ""],
                [kind |-> "Name", name |-> "frozenset", expr |-> ""],
                [kind |-> "Name", name |-> "scoped", expr |-> ""],
                [kind |-> "Name", name |-> "tofu", expr |-> ""]},
            imports |-> {"os"},
            from_modules |-> {"__future__", "cuprum"}]
      [] id = "many" ->
           [ok |-> TRUE,
            calls |->
               {[kind |-> "Attribute", name |-> "call", expr |-> "subprocess"],
                [kind |-> "Attribute", name |-> "make", expr |-> "sh"],
                [kind |-> "Attribute", name |-> "popen", expr |-> "os"],
                [kind |-> "Attribute", name |-> "run", expr |-> "subprocess"],
                [kind |-> "Attribute", name |-> "run_sync", expr |-> ""],
                [kind |-> "Attribute", name |-> "system", expr |-> "os"],
                [kind |-> "Name", name |-> "Program", expr |-> ""],
                [kind |-> "Name", name |-> "frozenset", expr |-> ""],
                [kind |-> "Name", name |-> "scoped", expr |-> ""],
                [kind |-> "Name", name |-> "tofu", expr |-> ""]},
            imports |-> {"subprocess"},
            from_modules |-> {"__future__", "cuprum", "subprocess"}]
      [] id = "near_miss" ->
           [ok |-> TRUE,
            calls |->
               {[kind |-> "Attribute", name |-> "make", expr |-> "sh"],
                [kind |-> "Attribute", name |-> "run", expr |-> "mysubprocess"],
                [kind |-> "Attribute", name |-> "run_sync", expr |-> ""],
                [kind |-> "Attribute", name |-> "system", expr |-> "myos"],
                [kind |-> "Name", name |-> "Program", expr |-> ""],
                [kind |-> "Name", name |-> "frozenset", expr |-> ""],
                [kind |-> "Name", name |-> "scoped", expr |-> ""],
                [kind |-> "Name", name |-> "tofu", expr |-> ""]},
            imports |-> {"subprocessing"},
            from_modules |-> {"__future__", "cuprum"}]
      [] id = "unscoped_run" ->
           [ok |-> TRUE,
            calls |->
               {[kind |-> "Attribute", name |-> "make", expr |-> "sh"],
                [kind |-> "Attribute", name |-> "run_sync", expr |-> ""],
                [kind |-> "Name", name |-> "Program", expr |-> ""],
                [kind |-> "Name", name |-> "tofu", expr |-> ""]},
            imports |-> {},
            from_modules |-> {"cuprum"}]
      [] id = "unscoped_norun" ->
           [ok |-> TRUE,
            calls |->
               {[kind |-> "Name", name |-> "Program", expr |-> ""],
                [kind |-> "Name", name |-> "print", expr |-> ""]},
            imports |-> {},
            from_modules |-> {"cuprum"}]
      [] id = "plain_os_system" ->
           [ok |-> TRUE,
            calls |->
               {[kind |-> "Attribute", name |-> "system", expr |-> "os"]},
            imports |-> {"os"},
            from_modules |-> {}]
      [] id = "unscoped_os_system" ->
           [ok |-> TRUE,
            calls |->
               {[kind |-> "Attribute", name |-> "system", expr |-> "os"],
                [kind |-> "Name", name |-> "Program", expr |-> ""]},
            imports |-> {"os"},
            from_modules |-> {"cuprum"}]
      [] id = "dot_run" ->
           [ok |-> TRUE,
            calls |->
               {[kind |-> "Attribute", name |-> "run", expr |-> "TOFU"],
                [kind |-> "Name", name |-> "Program", expr |-> ""],
                [kind |-> "Name", name |-> "frozenset", expr |-> ""],
                [kind |-> "Name", name |-> "scoped", expr |-> ""]},
            imports |-> {},
            from_modules |-> {"cuprum"}]
      [] id = "sh_make_only" ->
           [ok |-> TRUE,
            calls |->
               {[kind |-> "Attribute", name |-> "make", expr |-> "sh"],
                [kind |-> "Attribute", name |-> "run_sync", expr |-> ""],
                [kind |-> "Name", name |-> "frozenset", expr |-> ""],
                [kind |-> "Name", name |-> "scoped", expr |-> ""],
                [kind |-> "Name", name |-> "tofu", expr |-> ""]},
            imports |-> {},
            from_modules |-> {"cuprum"}]
      [] id = "run_no_import" ->
           [ok |-> TRUE,
            calls |->
               {[kind |-> "Attribute", name |-> "run_sync", expr |-> "TOFU"],
                [kind |-> "Name", name |-> "Program", expr |-> ""],
                [kind |-> "Name", name |-> "frozenset", expr |-> ""],
                [kind |-> "Name", name |-> "scoped", expr |-> ""]},
            imports |-> {},
            from_modules |-> {"helpers"}]
      [] id = "bare_run" ->
           [ok |-> TRUE,
            calls |->
               {[kind |-> "Name", name |-> "Program", expr |-> ""],
                [kind |-> "Name", name |-> "frozenset", expr |-> ""],
                [kind |-> "Name", name |-> "run", expr |-> ""],
                [kind |-> "Name", name |-> "scoped", expr |-> ""]},
            imports |-> {},
            from_modules |-> {"cuprum"}]
      [] id = "syntax_norun" ->
           [ok |-> FALSE, calls |-> {}, imports |-> {}, from_modules |-> {}]
      [] id = "syntax_run" ->
           [ok |-> FALSE, calls |-> {}, imports |-> {}, from_modules |-> {}]
      [] id = "text_only_usage" ->
           [ok |-> TRUE,
            calls |->
               {[kind |-> "Name", name |-> "print", expr |-> ""]},
            imports |-> {},
            from_modules |-> {}]

\* lexical classes of the word tokens and module names in use
AlphaWords == 
    {"MyProgram", "Program", "S", "TOFU", "True", "__future__", "a", "allowlist",
     "annotations", "b", "bash", "bin", "broken", "call", "cmd", "cuprum",
     "dependencies", "echo", "env", "from", "frozenset", "git", "hello", "helpers",
     "here", "hi", "if", "import", "keys", "local", "localhost", "make", "missing",
     "my_run_sync", "myos", "mysubprocess", "name", "no", "os", "pass", "plan",
     "plumbum", "popen", "print", "python", "requires", "result", "run", "run_sync",
     "scoped", "script", "sh", "subprocess", "subprocessing", "system", "tofu",
     "unscoped", "usr", "uv", "with", "would", "x", "y"}
EndsWith_scoped == 
    {"scoped", "unscoped"}
EndsWith_Program == 
    {"MyProgram", "Program"}
EndsWith_sh == 
    {"bash", "sh"}
EndsWith_run_sync == 
    {"my_run_sync", "run_sync"}
ContainsCuprum == 
    {"cuprum", "cuprum.cmd", "my_cuprum_utils"}

\* the code points of the names and message fragments the report sorts
Codepoints(t) ==
    CASE t = "/" -> <<47>>
      [] t = "scripts" -> <<115, 99, 114, 105, 112, 116, 115>>
      [] t = "other" -> <<111, 116, 104, 101, 114>>
      [] t = "a" -> <<97>>
      [] t = "b" -> <<98>>
      [] t = "x" -> <<120>>
      [] t = "_" -> <<95>>
      [] t = ".py" -> <<46, 112, 121>>
      [] t = ".txt" -> <<46, 116, 120, 116>>
      [] t = "tests" -> <<116, 101, 115, 116, 115>>
      [] t = "test" -> <<116, 101, 115, 116>>
      [] t = "helper" -> <<104, 101, 108, 112, 101, 114>>
      [] t = "init" -> <<105, 110, 105, 116>>
      [] t = "pkg" -> <<112, 107, 103>>
      [] t = "missing" -> <<109, 105, 115, 115, 105, 110, 103>>
      [] t = "'" -> <<96>>
      [] t = "missing expected uv shebang '" -> <<109, 105, 115, 115, 105, 110, 103, 32, 101, 120, 112, 101, 99, 116, 101, 100, 32, 117, 118, 32, 115, 104, 101, 98, 97, 110, 103, 32, 96>>
      [] t = "missing uv metadata block ('# /// script' ... '# ///')" -> <<109, 105, 115, 115, 105, 110, 103, 32, 117, 118, 32, 109, 101, 116, 97, 100, 97, 116, 97, 32, 98, 108, 111, 99, 107, 32, 40, 96, 35, 32, 47, 47, 47, 32, 115, 99, 114, 105, 112, 116, 96, 32, 46, 46, 46, 32, 96, 35, 32, 47, 47, 47, 96, 41>>
      [] t = "requires-python must include '" -> <<114, 101, 113, 117, 105, 114, 101, 115, 45, 112, 121, 116, 104, 111, 110, 32, 109, 117, 115, 116, 32, 105, 110, 99, 108, 117, 100, 101, 32, 96>>
      [] t = ">=3.13" -> <<62, 61, 51, 46, 49, 51>>
      [] t = "uv metadata must declare 'dependencies'" -> <<117, 118, 32, 109, 101, 116, 97, 100, 97, 116, 97, 32, 109, 117, 115, 116, 32, 100, 101, 99, 108, 97, 114, 101, 32, 96, 100, 101, 112, 101, 110, 100, 101, 110, 99, 105, 101, 115, 96>>
      [] t = "Plumbum imports are forbidden; use Cuprum" -> <<80, 108, 117, 109, 98, 117, 109, 32, 105, 109, 112, 111, 114, 116, 115, 32, 97, 114, 101, 32, 102, 111, 114, 98, 105, 100, 100, 101, 110, 59, 32, 117, 115, 101, 32, 67, 117, 112, 114, 117, 109>>
      [] t = "subprocess imports are forbidden; use Cuprum" -> <<115, 117, 98, 112, 114, 111, 99, 101, 115, 115, 32, 105, 109, 112, 111, 114, 116, 115, 32, 97, 114, 101, 32, 102, 111, 114, 98, 105, 100, 100, 101, 110, 59, 32, 117, 115, 101, 32, 67, 117, 112, 114, 117, 109>>
      [] t = "subprocess invocation is forbidden; use Cuprum" -> <<115, 117, 98, 112, 114, 111, 99, 101, 115, 115, 32, 105, 110, 118, 111, 99, 97, 116, 105, 111, 110, 32, 105, 115, 32, 102, 111, 114, 98, 105, 100, 100, 101, 110, 59, 32, 117, 115, 101, 32, 67, 117, 112, 114, 117, 109>>
      [] t = "shell execution via os.system/os.popen is forbidden" -> <<115, 104, 101, 108, 108, 32, 101, 120, 101, 99, 117, 116, 105, 111, 110, 32, 118, 105, 97, 32, 111, 115, 46, 115, 121, 115, 116, 101, 109, 47, 111, 115, 46, 112, 111, 112, 101, 110, 32, 105, 115, 32, 102, 111, 114, 98, 105, 100, 100, 101, 110>>
      [] t = "'from cuprum import local' is forbidden in baseline scripts" -> <<96, 102, 114, 111, 109, 32, 99, 117, 112, 114, 117, 109, 32, 105, 109, 112, 111, 114, 116, 32, 108, 111, 99, 97, 108, 96, 32, 105, 115, 32, 102, 111, 114, 98, 105, 100, 100, 101, 110, 32, 105, 110, 32, 98, 97, 115, 101, 108, 105, 110, 101, 32, 115, 99, 114, 105, 112, 116, 115>>
      [] t = "'cuprum.cmd' imports are forbidden in baseline scripts" -> <<96, 99, 117, 112, 114, 117, 109, 46, 99, 109, 100, 96, 32, 105, 109, 112, 111, 114, 116, 115, 32, 97, 114, 101, 32, 102, 111, 114, 98, 105, 100, 100, 101, 110, 32, 105, 110, 32, 98, 97, 115, 101, 108, 105, 110, 101, 32, 115, 99, 114, 105, 112, 116, 115>>
      [] t = "Cuprum command execution must use 'scoped(...allowlist=...)'" -> <<67, 117, 112, 114, 117, 109, 32, 99, 111, 109, 109, 97, 110, 100, 32, 101, 120, 101, 99, 117, 116, 105, 111, 110, 32, 109, 117, 115, 116, 32, 117, 115, 101, 32, 96, 115, 99, 111, 112, 101, 100, 40, 46, 46, 46, 97, 108, 108, 111, 119, 108, 105, 115, 116, 61, 46, 46, 46, 41, 96>>
      [] t = "Cuprum commands must use 'run_sync()' or 'run()'" -> <<67, 117, 112, 114, 117, 109, 32, 99, 111, 109, 109, 97, 110, 100, 115, 32, 109, 117, 115, 116, 32, 117, 115, 101, 32, 96, 114, 117, 110, 95, 115, 121, 110, 99, 40, 41, 96, 32, 111, 114, 32, 96, 114, 117, 110, 40, 41, 96>>
      [] t = "missing matching test '" -> <<109, 105, 115, 115, 105, 110, 103, 32, 109, 97, 116, 99, 104, 105, 110, 103, 32, 116, 101, 115, 116, 32, 96>>
      [] t = "unable to read script: " -> <<117, 110, 97, 98, 108, 101, 32, 116, 111, 32, 114, 101, 97, 100, 32, 115, 99, 114, 105, 112, 116, 58, 32>>
      [] t = "No such file or directory" -> <<78, 111, 32, 115, 117, 99, 104, 32, 102, 105, 108, 101, 32, 111, 114, 32, 100, 105, 114, 101, 99, 116, 111, 114, 121>>
      [] t = "Is a directory" -> <<73, 115, 32, 97, 32, 100, 105, 114, 101, 99, 116, 111, 114, 121>>
      [] t = "Permission denied" -> <<80, 101, 114, 109, 105, 115, 115, 105, 111, 110, 32, 100, 101, 110, 105, 101, 100>>
      [] t = "explicit path is not a file" -> <<101, 120, 112, 108, 105, 99, 105, 116, 32, 112, 97, 116, 104, 32, 105, 115, 32, 110, 111, 116, 32, 97, 32, 102, 105, 108, 101>>
      [] t = "explicit path is not a roadmap-delivered script entrypoint" -> <<101, 120, 112, 108, 105, 99, 105, 116, 32, 112, 97, 116, 104, 32, 105, 115, 32, 110, 111, 116, 32, 97, 32, 114, 111, 97, 100, 109, 97, 112, 45, 100, 101, 108, 105, 118, 101, 114, 101, 100, 32, 115, 99, 114, 105, 112, 116, 32, 101, 110, 116, 114, 121, 112, 111, 105, 110, 116>>
      [] t = "explicit path must be under scripts root and match roadmap script discovery rules" -> <<101, 120, 112, 108, 105, 99, 105, 116, 32, 112, 97, 116, 104, 32, 109, 117, 115, 116, 32, 98, 101, 32, 117, 110, 100, 101, 114, 32, 115, 99, 114, 105, 112, 116, 115, 32, 114, 111, 111, 116, 32, 97, 110, 100, 32, 109, 97, 116, 99, 104, 32, 114, 111, 97, 100, 109, 97, 112, 32, 115, 99, 114, 105, 112, 116, 32, 100, 105, 115, 99, 111, 118, 101, 114, 121, 32, 114, 117, 108, 101, 115>>
      [] t = "#" -> <<35>>
      [] t = "!" -> <<33>>
      [] t = " " -> <<32>>
      [] t = "-" -> <<45>>
      [] t = "usr" -> <<117, 115, 114>>
      [] t = "bin" -> <<98, 105, 110>>
      [] t = "env" -> <<101, 110, 118>>
      [] t = "S" -> <<83>>
      [] t = "uv" -> <<117, 118>>
      [] t = "run" -> <<114, 117, 110>>
      [] t = "python" -> <<112, 121, 116, 104, 111, 110>>

\* what each text holds, read off the text itself: whether its first line is
\* the shebang, whether a block-start line and a later block-end line are
\* there, the keys of the block, the clauses of requires-python, how often
\* each forbidden pattern matches, and the substrings the posture checks
\* look for
ScriptFacts(id) ==
    CASE id = "valid" ->
           [shebang |-> TRUE, block |-> TRUE, keys |-> {"dependencies", "requires-python"},
            clauses |-> <<">=3.13">>,
            rule_matches |-> <<0, 0, 0, 0, 0, 0, 0>>,
            usage_text |-> TRUE,
            scoped_text |-> TRUE,
            run_text |-> TRUE]
      [] id = "broken" ->
           [shebang |-> FALSE, block |-> FALSE, keys |-> {},
            clauses |-> <<>>,
            rule_matches |-> <<0, 0, 0, 0, 0, 0, 0>>,
            usage_text |-> FALSE,
            scoped_text |-> FALSE,
            run_text |-> FALSE]
      [] id = "subprocess" ->
           [shebang |-> TRUE, block |-> TRUE, keys |-> {"dependencies", "requires-python"},
            clauses |-> <<">=3.13">>,
            rule_matches |-> <<0, 1, 0, 1, 0, 0, 0>>,
            usage_text |-> TRUE,
            scoped_text |-> TRUE,
            run_text |-> TRUE]
      [] id = "missing_run" ->
           [shebang |-> TRUE, block |-> TRUE, keys |-> {"dependencies", "requires-python"},
            clauses |-> <<">=3.13">>,
            rule_matches |-> <<0, 0, 0, 0, 0, 0, 0>>,
            usage_text |-> TRUE,
            scoped_text |-> TRUE,
            run_text |-> FALSE]
      [] id = "shebang_only" ->
           [shebang |-> TRUE, block |-> FALSE, keys |-> {},
            clauses |-> <<>>,
            rule_matches |-> <<0, 0, 0, 0, 0, 0, 0>>,
            usage_text |-> FALSE,
            scoped_text |-> FALSE,
            run_text |-> FALSE]
      [] id = "block_only" ->
           [shebang |-> FALSE, block |-> TRUE, keys |-> {"dependencies", "requires-python"},
            clauses |-> <<">=3.13">>,
            rule_matches |-> <<0, 0, 0, 0, 0, 0, 0>>,
            usage_text |-> FALSE,
            scoped_text |-> FALSE,
            run_text |-> FALSE]
      [] id = "unterminated" ->
           [shebang |-> TRUE, block |-> FALSE, keys |-> {},
            clauses |-> <<>>,
            rule_matches |-> <<0, 0, 0, 0, 0, 0, 0>>,
            usage_text |-> FALSE,
            scoped_text |-> FALSE,
            run_text |-> FALSE]
      [] id = "comment_block" ->
           [shebang |-> TRUE, block |-> TRUE, keys |-> {},
            clauses |-> <<>>,
            rule_matches |-> <<0, 0, 0, 0, 0, 0, 0>>,
            usage_text |-> FALSE,
            scoped_text |-> FALSE,
            run_text |-> FALSE]
      [] id = "py312" ->
           [shebang |-> TRUE, block |-> TRUE, keys |-> {"dependencies", "requires-python"},
            clauses |-> <<">=3.12">>,
            rule_matches |-> <<0, 0, 0, 0, 0, 0, 0>>,
            usage_text |-> FALSE,
            scoped_text |-> FALSE,
            run_text |-> FALSE]
      [] id = "py314" ->
           [shebang |-> TRUE, block |-> TRUE, keys |-> {"dependencies", "requires-python"},
            clauses |-> <<">=3.14">>,
            rule_matches |-> <<0, 0, 0, 0, 0, 0, 0>>,
            usage_text |-> FALSE,
            scoped_text |-> FALSE,
            run_text |-> FALSE]
      [] id = "patch" ->
           [shebang |-> TRUE, block |-> TRUE, keys |-> {"dependencies", "requires-python"},
            clauses |-> <<">=3.13.4">>,
            rule_matches |-> <<0, 0, 0, 0, 0, 0, 0>>,
            usage_text |-> FALSE,
            scoped_text |-> FALSE,
            run_text |-> FALSE]
      [] id = "spaced" ->
           [shebang |-> TRUE, block |-> TRUE, keys |-> {"dependencies", "requires-python"},
            clauses |-> <<">= 3.13">>,
            rule_matches |-> <<0, 0, 0, 0, 0, 0, 0>>,
            usage_text |-> FALSE,
            scoped_text |-> FALSE,
            run_text |-> FALSE]
      [] id = "ranged" ->
           [shebang |-> TRUE, block |-> TRUE, keys |-> {"dependencies", "requires-python"},
            clauses |-> <<"<4", ">=3.13">>,
            rule_matches |-> <<0, 0, 0, 0, 0, 0, 0>>,
            usage_text |-> FALSE,
            scoped_text |-> FALSE,
            run_text |-> FALSE]
      [] id = "ranged312" ->
           [shebang |-> TRUE, block |-> TRUE, keys |-> {"dependencies", "requires-python"},
            clauses |-> <<">=3.12", "<3.13">>,
            rule_matches |-> <<0, 0, 0, 0, 0, 0, 0>>,
            usage_text |-> FALSE,
            scoped_text |-> FALSE,
            run_text |-> FALSE]
      [] id = "unquoted" ->
           [shebang |-> TRUE, block |-> TRUE, keys |-> {"dependencies", "requires-python"},
            clauses |-> <<">=3.13">>,
            rule_matches |-> <<0, 0, 0, 0, 0, 0, 0>>,
            usage_text |-> FALSE,
            scoped_text |-> FALSE,
            run_text |-> FALSE]
      [] id = "deps_empty" ->
           [shebang |-> TRUE, block |-> TRUE, keys |-> {"dependencies", "requires-python"},
            clauses |-> <<">=3.13">>,
            rule_matches |-> <<0, 0, 0, 0, 0, 0, 0>>,
            usage_text |-> FALSE,
            scoped_text |-> FALSE,
            run_text |-> FALSE]
      [] id = "other_key" ->
           [shebang |-> TRUE, block |-> TRUE, keys |-> {"name"},
            clauses |-> <<>>,
            rule_matches |-> <<0, 0, 0, 0, 0, 0, 0>>,
            usage_text |-> FALSE,
            scoped_text |-> FALSE,
            run_text |-> FALSE]
      [] id = "no_deps" ->
           [shebang |-> TRUE, block |-> TRUE, keys |-> {"requires-python"},
            clauses |-> <<">=3.13">>,
            rule_matches |-> <<0, 0, 0, 0, 0, 0, 0>>,
            usage_text |-> FALSE,
            scoped_text |-> FALSE,
            run_text |-> FALSE]
      [] id = "no_requires" ->
           [shebang |-> TRUE, block |-> TRUE, keys |-> {"dependencies"},
            clauses |-> <<>>,
            rule_matches |-> <<0, 0, 0, 0, 0, 0, 0>>,
            usage_text |-> FALSE,
            scoped_text |-> FALSE,
            run_text |-> FALSE]
      [] id = "from_subprocess" ->
           [shebang |-> TRUE, block |-> TRUE, keys |-> {"dependencies", "requires-python"},
            clauses |-> <<">=3.13">>,
            rule_matches |-> <<0, 0, 1, 0, 0, 0, 0>>,
            usage_text |-> TRUE,
            scoped_text |-> TRUE,
            run_text |-> TRUE]
      [] id = "plumbum" ->
           [shebang |-> TRUE, block |-> TRUE, keys |-> {"dependencies", "requires-python"},
            clauses |-> <<">=3.13">>,
            rule_matches |-> <<1, 0, 0, 0, 0, 0, 0>>,
            usage_text |-> TRUE,
            scoped_text |-> TRUE,
            run_text |-> TRUE]
      [] id = "cuprum_local" ->
           [shebang |-> TRUE, block |-> TRUE, keys |-> {"dependencies", "requires-python"},
            clauses |-> <<">=3.13">>,
            rule_matches |-> <<0, 0, 0, 0, 0, 1, 0>>,
            usage_text |-> TRUE,
            scoped_text |-> TRUE,
            run_text |-> TRUE]
      [] id = "cuprum_cmd" ->
           [shebang |-> TRUE, block |-> TRUE, keys |-> {"dependencies", "requires-python"},
            clauses |-> <<">=3.13">>,
            rule_matches |-> <<0, 0, 0, 0, 0, 0, 1>>,
            usage_text |-> TRUE,
            scoped_text |-> TRUE,
            run_text |-> TRUE]
      [] id = "os_system" ->
           [shebang |-> TRUE, block |-> TRUE, keys |-> {"dependencies", "requires-python"},
            clauses |-> <<">=3.13">>,
            rule_matches |-> <<0, 0, 0, 0, 1, 0, 0>>,
            usage_text |-> TRUE,
            scoped_text |-> TRUE,
            run_text |-> TRUE]
      [] id = "os_popen" ->
           [shebang |-> TRUE, block |-> TRUE, keys |-> {"dependencies", "requires-python"},
            clauses |-> <<">=3.13">>,
            rule_matches |-> <<0, 0, 0, 0, 1, 0, 0>>,
            usage_text |-> TRUE,
            scoped_text |-> TRUE,
            run_text |-> TRUE]
      [] id = "many" ->
           [shebang |-> TRUE, block |-> TRUE, keys |-> {"dependencies", "requires-python"},
            clauses |-> <<">=3.13">>,
            rule_matches |-> <<0, 2, 1, 2, 2, 0, 0>>,
            usage_text |-> TRUE,
            scoped_text |-> TRUE,
            run_text |-> TRUE]
      [] id = "near_miss" ->
           [shebang |-> TRUE, block |-> TRUE, keys |-> {"dependencies", "requires-python"},
            clauses |-> <<">=3.13">>,
            rule_matches |-> <<0, 0, 0, 0, 0, 0, 0>>,
            usage_text |-> TRUE,
            scoped_text |-> TRUE,
            run_text |-> TRUE]
      [] id = "unscoped_run" ->
           [shebang |-> TRUE, block |-> TRUE, keys |-> {"dependencies", "requires-python"},
            clauses |-> <<">=3.13">>,
            rule_matches |-> <<0, 0, 0, 0, 0, 0, 0>>,
            usage_text |-> TRUE,
            scoped_text |-> FALSE,
            run_text |-> TRUE]
      [] id = "unscoped_norun" ->
           [shebang |-> TRUE, block |-> TRUE, keys |-> {"dependencies", "requires-python"},
            clauses |-> <<">=3.13">>,
            rule_matches |-> <<0, 0, 0, 0, 0, 0, 0>>,
            usage_text |-> TRUE,
            scoped_text |-> FALSE,
            run_text |-> FALSE]
      [] id = "plain_os_system" ->
           [shebang |-> TRUE, block |-> TRUE, keys |-> {"dependencies", "requires-python"},
            clauses |-> <<">=3.13">>,
            rule_matches |-> <<0, 0, 0, 0, 1, 0, 0>>,
            usage_text |-> FALSE,
            scoped_text |-> FALSE,
            run_text |-> FALSE]
      [] id = "unscoped_os_system" ->
           [shebang |-> TRUE, block |-> TRUE, keys |-> {"dependencies", "requires-python"},
            clauses |-> <<">=3.13">>,
            rule_matches |-> <<0, 0, 0, 0, 1, 0, 0>>,
            usage_text |-> TRUE,
            scoped_text |-> FALSE,
            run_text |-> FALSE]
      [] id = "dot_run" ->
           [shebang |-> TRUE, block |-> TRUE, keys |-> {"dependencies", "requires-python"},
            clauses |-> <<">=3.13">>,
            rule_matches |-> <<0, 0, 0, 0, 0, 0, 0>>,
            usage_text |-> TRUE,
            scoped_text |-> TRUE,
            run_text |-> TRUE]
      [] id = "sh_make_only" ->
           [shebang |-> TRUE, block |-> TRUE, keys |-> {"dependencies", "requires-python"},
            clauses |-> <<">=3.13">>,
            rule_matches |-> <<0, 0, 0, 0, 0, 0, 0>>,
            usage_text |-> TRUE,
            scoped_text |-> TRUE,
            run_text |-> TRUE]
      [] id = "run_no_import" ->
           [shebang |-> TRUE, block |-> TRUE, keys |-> {"dependencies", "requires-python"},
            clauses |-> <<">=3.13">>,
            rule_matches |-> <<0, 0, 0, 0, 0, 0, 0>>,
            usage_text |-> TRUE,
            scoped_text |-> TRUE,
            run_text |-> TRUE]
      [] id = "bare_run" ->
           [shebang |-> TRUE, block |-> TRUE, keys |-> {"dependencies", "requires-python"},
            clauses |-> <<">=3.13">>,
            rule_matches |-> <<0, 0, 0, 0, 0, 0, 0>>,
            usage_text |-> TRUE,
            scoped_text |-> TRUE,
            run_text |-> FALSE]
      [] id = "syntax_norun" ->
           [shebang |-> TRUE, block |-> TRUE, keys |-> {"dependencies", "requires-python"},
            clauses |-> <<">=3.13">>,
            rule_matches |-> <<0, 0, 0, 0, 0, 0, 0>>,
            usage_text |-> TRUE,
            scoped_text |-> TRUE,
            run_text |-> FALSE]
      [] id = "syntax_run" ->
           [shebang |-> TRUE, block |-> TRUE, keys |-> {"dependencies", "requires-python"},
            clauses |-> <<">=3.13">>,
            rule_matches |-> <<0, 0, 0, 0, 0, 0, 0>>,
            usage_text |-> TRUE,
            scoped_text |-> TRUE,
            run_text |-> TRUE]
      [] id = "text_only_usage" ->
           [shebang |-> TRUE, block |-> TRUE, keys |-> {"dependencies", "requires-python"},
            clauses |-> <<">=3.13">>,
            rule_matches |-> <<0, 0, 0, 0, 0, 0, 0>>,
            usage_text |-> TRUE,
            scoped_text |-> FALSE,
            run_text |-> FALSE]
\* END GENERATED

\* ------------------------------------------------------ FORBIDDEN_PATTERNS
\* A pattern is a sequence of items: a token out of a set, \s* or \s+.  A word
\* token is a maximal run of word characters, so \b holds at both its ends.
Tok(S) == [kind |-> "tok", toks |-> S]
Ws0 == [kind |-> "ws0", toks |-> {}]
Ws1 == [kind |-> "ws1", toks |-> {}]

RECURSIVE match_at(_, _, _)
match_at(s, i, pat) ==
    IF pat = <<>> THEN TRUE
    ELSE LET item == Head(pat)
         IN CASE item.kind = "ws0" -> match_at(s, skip_spaces(s, i), Tail(pat))
              [] item.kind = "ws1" ->
                    /\ i <= Len(s)
                    /\ IsSpace(s[i])
                    /\ match_at(s, skip_spaces(s, i), Tail(pat))
              [] OTHER ->
                    /\ i <= Len(s)
                    /\ s[i] \in item.toks
                    /\ match_at(s, i + 1, Tail(pat))

\* pattern.search(text) with re.MULTILINE: ^ is the start of a line
search(rule, s) ==
    \E i \in 1..(Len(s) + 1) :
        /\ rule.anchored => (i = 1 \/ s[i - 1] = "\n")
        /\ match_at(s, i, rule.pattern)

Rule(anchored, pattern, message) ==
    [anchored |-> anchored, pattern |-> pattern, message |-> message]

FORBIDDEN_PATTERNS ==
    <<Rule(TRUE, <<Ws0, Tok({"from", "import"}), Ws1, Tok({"plumbum"})>>,
           <<"Plumbum imports are forbidden; use Cuprum">>),
      Rule(TRUE, <<Ws0, Tok({"import"}), Ws1, Tok({"subprocess"})>>,
           <<"subprocess imports are forbidden; use Cuprum">>),
      Rule(TRUE, <<Ws0, Tok({"from"}), Ws1, Tok({"subprocess"}), Ws1, Tok({"import"})>>,
           <<"subprocess imports are forbidden; use Cuprum">>),
      Rule(FALSE, <<Tok({"subprocess"}), Tok({"."}), Tok(AlphaWords), Tok({"("})>>,
           <<"subprocess invocation is forbidden; use Cuprum">>),
      Rule(FALSE, <<Tok({"os"}), Tok({"."}), Tok({"system", "popen"}), Tok({"("})>>,
           <<"shell execution via os.system/os.popen is forbidden">>),
      Rule(TRUE, <<Ws0, Tok({"from"}), Ws1, Tok({"cuprum"}), Ws1, Tok({"import"}), Ws1,
                   Tok({"local"})>>,
           <<"'from cuprum import local' is forbidden in baseline scripts">>),
      Rule(TRUE, <<Ws0, Tok({"from"}), Ws1, Tok({"cuprum"}), Tok({"."}), Tok({"cmd"}),
                   Ws1, Tok({"import"})>>,
           <<"'cuprum.cmd' imports are forbidden in baseline scripts">>)>>

RECURSIVE check_rules(_, _, _)
check_rules(rules, path, script_text) ==
    IF rules = <<>> THEN <<>>
    ELSE (IF search(Head(rules), script_text)
          THEN <<BaselineIssue(path, Head(rules).message)>>
          ELSE <<>>)
         \o check_rules(Tail(rules), path, script_text)

check_forbidden_patterns_mutant_first_only(path, script_text) ==
    LET all == check_rules(FORBIDDEN_PATTERNS, path, script_text)
    IN IF all = <<>> THEN <<>> ELSE <<all[1]>>

check_forbidden_patterns(path, script_text) ==
    check_rules(FORBIDDEN_PATTERNS, path, script_text)

\* -------------------------------------------------------- Cuprum posture
\* "<word>(" in script_text, for the words ending as asked
has_call_text(s, words) == \E i \in 1..(Len(s) - 1) : s[i] \in words /\ s[i + 1] = "("

\* "sh.make(" in script_text
has_sh_make_text(s) ==
    \E i \in 1..(Len(s) - 3) :
        s[i] \in EndsWith_sh /\ s[i + 1] = "." /\ s[i + 2] = "make" /\ s[i + 3] = "("

\* re.search(r"\.run\(", script_text)
has_dot_run_text(s) ==
    \E i \in 1..(Len(s) - 2) : s[i] = "." /\ s[i + 1] = "run" /\ s[i + 2] = "("

detect_cuprum_usage_mutant_never(script, astroid_ok) == FALSE

\* _detect_cuprum_usage; astroid_ok: the import of astroid succeeded
detect_cuprum_usage(script, astroid_ok) ==
    IF ~astroid_ok \/ ~ScriptAst(script).ok
    THEN has_call_text(ScriptText(script), EndsWith_Program)
             \/ has_sh_make_text(ScriptText(script))
    ELSE \E c \in ScriptAst(script).calls :
             \/ c.kind = "Name" /\ c.name = "Program"
             \/ c.kind = "Attribute" /\ c.name = "make" /\ c.expr = "sh"

\* _has_cuprum_imports and _has_cuprum_run_calls on the parsed module
has_cuprum_imports(tree) ==
    \/ \E m \in tree.imports : m \in ContainsCuprum
    \/ \E m \in tree.from_modules : m \in ContainsCuprum

has_cuprum_run_calls(tree) ==
    \E c \in tree.calls : c.kind = "Attribute" /\ c.name \in {"run", "run_sync"}

\* _run_invocation_present
run_invocation_present_mutant_text_only(script, astroid_ok) ==
    has_call_text(ScriptText(script), EndsWith_run_sync)
        \/ has_dot_run_text(ScriptText(script))

run_invocation_present(script, astroid_ok) ==
    IF ~astroid_ok \/ ~ScriptAst(script).ok
    THEN has_call_text(ScriptText(script), EndsWith_run_sync)
             \/ has_dot_run_text(ScriptText(script))
    ELSE has_cuprum_imports(ScriptAst(script)) /\ has_cuprum_run_calls(ScriptAst(script))

\* _validate_cuprum_requirements
validate_cuprum_requirements_mutant_first_failure_only(path, script, astroid_ok) ==
    IF ~run_invocation_present(script, astroid_ok)
    THEN <<BaselineIssue(path, <<"Cuprum commands must use 'run_sync()' or 'run()'">>)>>
    ELSE IF ~has_call_text(ScriptText(script), EndsWith_scoped)
         THEN <<BaselineIssue(path,
                    <<"Cuprum command execution must use 'scoped(...allowlist=...)'">>)>>
         ELSE <<>>

validate_cuprum_requirements(path, script, astroid_ok) ==
    (IF ~has_call_text(ScriptText(script), EndsWith_scoped)
     THEN <<BaselineIssue(path,
                <<"Cuprum command execution must use 'scoped(...allowlist=...)'">>)>>
     ELSE <<>>)
    \o (IF ~run_invocation_present(script, astroid_ok)
        THEN <<BaselineIssue(path, <<"Cuprum commands must use 'run_sync()' or 'run()'">>)>>
        ELSE <<>>)

\* validate_command_invocation
validate_command_invocation_mutant_ungated(path, script, astroid_ok) ==
    check_forbidden_patterns(path, ScriptText(script))
        \o validate_cuprum_requirements(path, script, astroid_ok)

validate_command_invocation(path, script, astroid_ok) ==
    IF ~detect_cuprum_usage(script, astroid_ok)
    THEN check_forbidden_patterns(path, ScriptText(script))
    ELSE check_forbidden_patterns(path, ScriptText(script))
             \o validate_cuprum_requirements(path, script, astroid_ok)

\* ---------------------------------------------------- validate_matching_test
validate_matching_test_mutant_never_missing(f, script_path, scripts_root) == <<>>

validate_matching_test(f, script_path, scripts_root) ==
    LET expected == expected_test_path(script_path, scripts_root)
    IN IF exists(f, expected) THEN <<>>
       ELSE <<BaselineIssue(script_path,
                  <<"missing matching test '">>
                      \o PathTokens(relative_to(expected, scripts_root)) \o <<"'">>)>>

\* ----------------------------------------------------------- validate_script
\* Path.read_text: the strerror of the OSError it raises, "" when it succeeds
read_error(f, path) ==
    IF ~exists(f, path) THEN "No such file or directory"
    ELSE IF f[path].kind = "dir" THEN "Is a directory"
    ELSE IF ~f[path].readable THEN "Permission denied"
    ELSE ""

validate_script_mutant_skips_unreadable(f, script_path, scripts_root, astroid_ok) ==
    IF read_error(f, script_path) /= "" THEN <<>>
    ELSE validate_runtime_metadata(script_path, ScriptText(f[script_path].text))
             \o validate_command_invocation(script_path, f[script_path].text, astroid_ok)
             \o validate_matching_test(f, script_path, scripts_root)

validate_script(f, script_path, scripts_root, astroid_ok) ==
    IF read_error(f, script_path) /= ""
    THEN <<BaselineIssue(script_path,
               <<"unable to read script: ", read_error(f, script_path)>>)>>
    ELSE validate_runtime_metadata(script_path, ScriptText(f[script_path].text))
             \o validate_command_invocation(script_path, f[script_path].text, astroid_ok)
             \o validate_matching_test(f, script_path, scripts_root)

\* ------------------------------------------------------ order of strings
RECURSIVE Codes(_)
Codes(tokens) ==
    IF tokens = <<>> THEN <<>> ELSE Codepoints(Head(tokens)) \o Codes(Tail(tokens))

\* a < b for two sequences of numbers, as Python orders strings and lists
SeqLess(a, b) ==
    \E i \in 1..Len(b) :
        /\ Len(a) >= i - 1
        /\ \A j \in 1..(i - 1) : a[j] = b[j]
        /\ (Len(a) = i - 1 \/ a[i] < b[i])

\* path < other for two pure paths: the lists of their parts are compared
PartsLess(path, other) ==
    \E i \in 1..Len(other) :
        /\ Len(path) >= i - 1
        /\ \A j \in 1..(i - 1) : path[j] = other[j]
        /\ (Len(path) = i - 1 \/ SeqLess(Codes(path[i]), Codes(other[i])))

\* sorted(paths) for a set of distinct paths
RECURSIVE sorted_paths(_)
sorted_paths(S) ==
    IF S = {} THEN <<>>
    ELSE LET least == CHOOSE x \in S : \A y \in S : ~PartsLess(y, x)
         IN <<least>> \o sorted_paths(S \ {least})

\* the sort key of render_issues: (str(issue.path), issue.message)
IssueLess(a, b) ==
    LET pa == Codes(PathTokens(a.path))
        pb == Codes(PathTokens(b.path))
    IN \/ SeqLess(pa, pb)
       \/ pa = pb /\ SeqLess(Codes(a.message), Codes(b.message))

\* sorted(issues, key=...): stable
insert_issue(done, x) ==
    LET after == {i \in 1..Len(done) : IssueLess(x, done[i])}
        at == IF after = {} THEN Len(done) + 1
              ELSE CHOOSE i \in after : \A j \in after : i <= j
    IN SubSeq(done, 1, at - 1) \o <<x>> \o SubSeq(done, at, Len(done))

RECURSIVE sort_issues(_, _)
sort_issues(todo, done) ==
    IF todo = <<>> THEN done
    ELSE sort_issues(Tail(todo), insert_issue(done, Head(todo)))

\* ------------------------------------------------------------ render_issues
display_path(path, scripts_root) ==
    IF is_under(path, scripts_root) THEN relative_to(path, scripts_root) ELSE path

render_issues_mutant_unsorted(all_issues, scripts_root) ==
    <<"script baseline validation failed:">>
        \o [i \in 1..Len(all_issues) |->
               "- " \o PathStr(display_path(all_issues[i].path, scripts_root))
                    \o ": " \o Str(all_issues[i].message)]

\* the lines of the report
render_issues(all_issues, scripts_root) ==
    LET sorted_issues == sort_issues(all_issues, <<>>)
    IN <<"script baseline validation failed:">>
           \o [i \in 1..Len(sorted_issues) |->
                  "- " \o PathStr(display_path(sorted_issues[i].path, scripts_root))
                       \o ": " \o Str(sorted_issues[i].message)]

\* -------------------------------------------------- discover_roadmap_scripts
\* scripts_root.rglob("*.py"): what exists below the root under a name that
\* ends in .py, files and directories alike
rglob_py(f, scripts_root) ==
    {path \in DOMAIN f :
        /\ exists(f, path)
        /\ is_under(path, scripts_root)
        /\ Len(path) > Len(scripts_root)
        /\ name_of(path)[Len(name_of(path))] = ".py"}

discover_roadmap_scripts_mutant_unfiltered(f, scripts_root) ==
    sorted_paths(rglob_py(f, scripts_root))

discover_roadmap_scripts(f, scripts_root) ==
    sorted_paths({path \in rglob_py(f, scripts_root) :
                      is_roadmap_script(path, scripts_root).value})

\* ---------------------------------------------------- _validate_explicit_path
\* <<>> stands for None, <<issue>> for an issue
validate_explicit_path_mutant_under_root_first(f, path, scripts_root) ==
    LET resolved_path == resolve(path)
        eligible == is_roadmap_script(resolved_path, scripts_root)
    IN IF ~exists(f, resolved_path) THEN <<>>
       ELSE IF ~is_file(f, resolved_path)
            THEN <<BaselineIssue(resolved_path, <<"explicit path is not a file">>)>>
       ELSE IF ~is_under(resolved_path, scripts_root)
            THEN <<BaselineIssue(resolved_path,
                       <<"explicit path must be under scripts root and match roadmap script discovery rules">>)>>
       ELSE IF ~eligible.value
            THEN <<BaselineIssue(resolved_path,
                       <<"explicit path is not a roadmap-delivered script entrypoint">>)>>
       ELSE <<>>

validate_explicit_path(f, path, scripts_root) ==
    LET resolved_path == resolve(path)
        eligible == is_roadmap_script(resolved_path, scripts_root)
    IN IF ~exists(f, resolved_path) THEN <<>>
       ELSE IF ~is_file(f, resolved_path)
            THEN <<BaselineIssue(resolved_path, <<"explicit path is not a file">>)>>
       ELSE IF eligible.raises
            THEN <<BaselineIssue(resolved_path,
                       <<"explicit path must be under scripts root and match roadmap script discovery rules">>)>>
       ELSE IF ~eligible.value
            THEN <<BaselineIssue(resolved_path,
                       <<"explicit path is not a roadmap-delivered script entrypoint">>)>>
       ELSE <<>>

\* ---------------------------------------------------- _process_explicit_paths
process_explicit_paths_mutant_skips_missing(f, paths, scripts_root) ==
    LET kept == SelectSeq(paths, LAMBDA q :
                    validate_explicit_path(f, q, scripts_root) = <<>>
                        /\ exists(f, resolve(q)))
        bad == SelectSeq(paths, LAMBDA q :
                    validate_explicit_path(f, q, scripts_root) /= <<>>)
    IN [script_paths |-> [i \in 1..Len(kept) |-> resolve(kept[i])],
        issues |-> [i \in 1..Len(bad) |->
                       validate_explicit_path(f, bad[i], scripts_root)[1]]]

process_explicit_paths(f, paths, scripts_root) ==
    LET kept == SelectSeq(paths, LAMBDA q :
                    validate_explicit_path(f, q, scripts_root) = <<>>)
        bad == SelectSeq(paths, LAMBDA q :
                    validate_explicit_path(f, q, scripts_root) /= <<>>)
    IN [script_paths |-> [i \in 1..Len(kept) |-> resolve(kept[i])],
        issues |-> [i \in 1..Len(bad) |->
                       validate_explicit_path(f, bad[i], scripts_root)[1]]]

\* -------------------------------------------------------------------- main
MaxArgs == 2

\* what the command line can name: a script, by a path relative to the
\* working directory; a path that does not exist; a test; a directory; a
\* file outside the root
PathArguments ==
    {<< <<"a", ".py">> >>, P_missing, P_test_a, P_dir_a, P_outside}

\* parse_args: the namespace of --root and the positional paths
BaselineArgs ==
    {[root |-> Root, paths |-> paths] : paths \in SeqsUpTo(PathArguments, MaxArgs)}

\* the trees the checker is run on: a.py in each of its forms, a/b.py absent or
\* present with or without its test, the test of a.py and a directory pkg.py
\* present or absent
Filesystems ==
    {[path \in {P_a, P_a_b, P_helper, P_test_a, P_test_a_b, P_pkg, P_outside,
                P_missing, P_dir_a, P_tests, P_tests_a} |->
         CASE path = P_a -> a
           [] path = P_a_b -> IF nested /= "absent" THEN File("valid") ELSE Missing
           [] path = P_test_a -> IF test_a THEN File("valid") ELSE Missing
           [] path = P_test_a_b -> IF nested = "tested" THEN File("valid") ELSE Missing
           [] path = P_pkg -> IF pkg THEN Dir ELSE Missing
           [] path = P_helper -> File("valid")
           [] path = P_outside -> File("valid")
           [] path = P_missing -> Missing
           [] OTHER -> Dir] :
        a \in {Missing, Unreadable} \cup {File(id) : id \in ScriptIds},
        nested \in {"absent", "untested", "tested"},
        test_a \in BOOLEAN, pkg \in BOOLEAN}

scripts_root == resolve(b_args.root)

\* every issue main has collected so far
all_issues == explicit_path_issues \o issues

\* main, args.paths non-empty: the explicit paths are checked and queued
ProcessExplicitPaths ==
    /\ b_pc = "start"
    /\ b_args.paths /= <<>>
    /\ LET processed == process_explicit_paths(fs, b_args.paths, scripts_root)
       IN /\ script_paths' = processed.script_paths
          /\ explicit_path_issues' = processed.issues
    /\ b_pc' = "validate"
    /\ UNCHANGED <<fs, b_args, validated, issues, astroid_available, b_out, b_exit>>
    /\ UNCHANGED <<sync_vars, call, ret, earlier_runs>>

\* main, no explicit path: the scripts are discovered under the root
DiscoverRoadmapScripts ==
    /\ b_pc = "start"
    /\ b_args.paths = <<>>
    /\ script_paths' = discover_roadmap_scripts(fs, scripts_root)
    /\ explicit_path_issues' = <<>>
    /\ b_pc' = "validate"
    /\ UNCHANGED <<fs, b_args, validated, issues, astroid_available, b_out, b_exit>>
    /\ UNCHANGED <<sync_vars, call, ret, earlier_runs>>

\* main: one turn of the comprehension that validates the queued scripts
ValidateScript ==
    /\ b_pc = "validate"
    /\ Len(validated) < Len(script_paths)
    /\ LET script_path == script_paths[Len(validated) + 1]
       IN /\ issues' = issues \o validate_script(fs, script_path, scripts_root,
                                                 astroid_available)
          /\ validated' = Append(validated, script_path)
    /\ UNCHANGED <<fs, b_args, b_pc, script_paths, explicit_path_issues,
                   astroid_available, b_out, b_exit>>
    /\ UNCHANGED <<sync_vars, call, ret, earlier_runs>>

main_result_mutant_always_passes(found, n) ==
    [out |-> <<"script baseline validation passed for " \o ToString(n) \o " script(s)">>,
     exit |-> 0]

\* a checker that remembers it has reported already
main_result_mutant_reports_once(found, n) ==
    IF found /= <<>> /\ earlier_runs = <<>>
    THEN [out |-> render_issues(found, scripts_root), exit |-> 1]
    ELSE [out |-> <<"script baseline validation passed for " \o ToString(n) \o " script(s)">>,
          exit |-> 0]

\* main: what it prints and returns once the issues are collected
main_result(found, n) ==
    IF found /= <<>>
    THEN [out |-> render_issues(found, scripts_root), exit |-> 1]
    ELSE [out |-> <<"script baseline validation passed for " \o ToString(n) \o " script(s)">>,
          exit |-> 0]

\* main: issues were found, the report is printed and 1 returned
ReportIssues ==
    /\ b_pc = "validate"
    /\ Len(validated) = Len(script_paths)
    /\ all_issues /= <<>>
    /\ LET result == main_result(all_issues, Len(script_paths))
       IN b_out' = result.out /\ b_exit' = result.exit
    /\ b_pc' = "done"
    /\ UNCHANGED <<fs, b_args, script_paths, explicit_path_issues, validated,
                   issues, astroid_available>>
    /\ UNCHANGED <<sync_vars, call, ret, earlier_runs>>

\* main: no issue, the count of scripts is printed and 0 returned
ReportPassed ==
    /\ b_pc = "validate"
    /\ Len(validated) = Len(script_paths)
    /\ all_issues = <<>>
    /\ LET result == main_result(all_issues, Len(script_paths))
       IN b_out' = result.out /\ b_exit' = result.exit
    /\ b_pc' = "done"
    /\ UNCHANGED <<fs, b_args, script_paths, explicit_path_issues, validated,
                   issues, astroid_available>>
    /\ UNCHANGED <<sync_vars, call, ret, earlier_runs>>

\* how many times main is run on the same arguments and filesystem
MaxRuns == 2

\* main has returned and is invoked again with the same arguments on the
\* filesystem as the run left it: its locals are created anew
MainAgain ==
    /\ b_pc = "done"
    /\ Len(earlier_runs) < MaxRuns - 1
    /\ earlier_runs' = Append(earlier_runs,
                              [issues |-> all_issues, validated |-> validated,
                               out |-> b_out, exit |-> b_exit])
    /\ b_pc' = "start"
    /\ script_paths' = <<>>
    /\ explicit_path_issues' = <<>>
    /\ validated' = <<>>
    /\ issues' = <<>>
    /\ b_out' = <<>>
    /\ b_exit' = 0
    /\ UNCHANGED <<fs, b_args, astroid_available>>
    /\ UNCHANGED <<sync_vars, call, ret>>

BaselineInit ==
    /\ SyncIdle
    /\ fs \in Filesystems
    /\ b_args \in BaselineArgs
    /\ astroid_available \in BOOLEAN
    /\ b_pc = "start"
    /\ script_paths = <<>>
    /\ explicit_path_issues = <<>>
    /\ validated = <<>>
    /\ issues = <<>>
    /\ b_out = <<>>
    /\ b_exit = 0
    /\ call = NoCall
    /\ ret = NoReturn
    /\ earlier_runs = <<>>

BaselineNext ==
    \/ ProcessExplicitPaths
    \/ DiscoverRoadmapScripts
    \/ ValidateScript
    \/ ReportIssues
    \/ ReportPassed
    \/ MainAgain

BaselineSpec == BaselineInit /\ [][BaselineNext]_vars

\* ------------------------------------------------ claims about the checker
BaselineDone == b_pc = "done"

passed_line(n) == "script baseline validation passed for " \o ToString(n) \o " script(s)"

\* the explicit path arguments, resolved, that do not exist on disk
MissingArguments ==
    {resolve(b_args.paths[i]) : i \in {j \in 1..Len(b_args.paths) :
                                          ~exists(fs, resolve(b_args.paths[j]))}}

\* C9: main returns 1 exactly when the explicit-path issues together with the
\* issues of every validated script are non-empty, and 0 otherwise; returning 0
\* it prints "script baseline validation passed for <n> script(s)", n being
\* the number of scripts it validated, and returning 1 it prints the failure
\* report, one line per issue under the heading, instead.
C9_ExitStatusFollowsIssues ==
    BaselineDone =>
        /\ b_exit \in {0, 1}
        /\ b_exit = 1 <=> all_issues /= <<>>
        /\ validated = script_paths
        /\ b_exit = 0 => b_out = <<passed_line(Len(validated))>>
        /\ b_exit = 1 =>
               /\ Len(b_out) = 1 + Len(all_issues)
               /\ b_out[1] = "script baseline validation failed:"
               /\ \A n \in 0..(MaxArgs + 3) : passed_line(n) \notin Range(b_out)

\* a root with one compliant script and its test: passed for 1 script(s)
C9_Witness ==
    /\ BaselineDone
    /\ b_args.paths = <<>>
    /\ validated = <<P_a>>
    /\ b_exit = 0
    /\ b_out = <<"script baseline validation passed for 1 script(s)">>

\* C10 as the specification states it: an explicit path that does not exist
\* is skipped; it is never queued or validated, no issue names it, and a run
\* whose explicit paths all do not exist returns 0.
C10_AsStated ==
    /\ \A path \in MissingArguments :
           /\ path \notin Range(script_paths)
           /\ path \notin Range(validated)
           /\ \A i \in 1..Len(all_issues) : all_issues[i].path /= path
    /\ (BaselineDone /\ b_args.paths /= <<>>
            /\ \A i \in 1..Len(b_args.paths) : resolve(b_args.paths[i]) \in MissingArguments)
           => b_exit = 0

\* C10: an explicit path that does not exist gets no explicit-path issue but
\* is queued for validation all the same; validate_script, called on it,
\* reports "unable to read script: No such file or directory", and main
\* returns 1 with that issue in its report.
C10_MissingPathIsValidated ==
    \A path \in MissingArguments :
        /\ \A i \in 1..Len(explicit_path_issues) : explicit_path_issues[i].path /= path
        /\ b_pc /= "start" => path \in Range(script_paths)
        /\ path \in Range(validated) =>
               BaselineIssue(path, <<"unable to read script: ",
                                     "No such file or directory">>) \in Range(issues)
        /\ BaselineDone =>
               /\ path \in Range(validated)
               /\ b_exit = 1
               /\ ("- " \o PathStr(display_path(path, scripts_root))
                       \o ": unable to read script: No such file or directory")
                      \in Range(b_out)

\* the checker run on one path that does not exist
C10_Witness ==
    /\ BaselineDone
    /\ b_args.paths = <<P_missing>>
    /\ validated = <<P_missing>>
    /\ b_exit = 1
    /\ b_out = <<"script baseline validation failed:",
                 "- missing.py: unable to read script: No such file or directory">>

\* the explicit path arguments, resolved, that are regular files and fail the
\* eligibility predicate without an error
IneligibleArguments ==
    {resolve(b_args.paths[i]) : i \in {j \in 1..Len(b_args.paths) :
        LET path == resolve(b_args.paths[j])
        IN /\ is_file(fs, path)
           /\ is_under(path, scripts_root)
           /\ (\/ suffix_of(path) /= ".py"
               \/ name_of(path)[1] = "_"
               \/ <<"tests">> \in Range(relative_to(path, scripts_root)))}}

\* C11: an explicit path that exists, is a regular file and fails the
\* eligibility predicate (a file under tests/) gets the issue "explicit path is
\* not a roadmap-delivered script entrypoint", is kept out of the validation
\* set, gets no issue from validate_script, and makes main return 1 with the
\* issue in its report.
C11_IneligibleExplicitPathReported ==
    \A path \in IneligibleArguments :
        b_pc /= "start" =>
            /\ BaselineIssue(path, <<"explicit path is not a roadmap-delivered script entrypoint">>)
                   \in Range(explicit_path_issues)
            /\ path \notin Range(script_paths)
            /\ path \notin Range(validated)
            /\ \A i \in 1..Len(issues) : issues[i].path /= path
            /\ BaselineDone =>
                   /\ b_exit = 1
                   /\ ("- " \o PathStr(display_path(path, scripts_root))
                           \o ": explicit path is not a roadmap-delivered script entrypoint")
                          \in Range(b_out)

\* the checker run on the test of a.py alone
C11_Witness ==
    /\ BaselineDone
    /\ b_args.paths = <<P_test_a>>
    /\ IneligibleArguments = {P_test_a}
    /\ validated = <<>>
    /\ b_exit = 1
    /\ b_out = <<"script baseline validation failed:",
                 "- tests/test_a.py: explicit path is not a roadmap-delivered script entrypoint">>

\* the eligibility predicate as the specification words it: suffix .py, a
\* name that does not start with "_" and is not __init__.py, no segment
\* below the root equal to tests
Eligible(path) ==
    /\ is_under(path, scripts_root)
    /\ Len(path) > Len(scripts_root)
    /\ suffix_of(path) = ".py"
    /\ name_of(path)[1] /= "_"
    /\ name_of(path) /= <<"_", "_", "init", "_", "_", ".py">>
    /\ <<"tests">> \notin Range(relative_to(path, scripts_root))

\* a sequence of paths without repetition in ascending order
Ascending(paths) ==
    \A i \in 1..Len(paths) : \A j \in 1..Len(paths) :
        i < j => PartsLess(paths[i], paths[j])

Discovered == b_args.paths = <<>> /\ b_pc /= "start"

\* C12 as the specification states it: discover_roadmap_scripts returns
\* exactly the files under the scan root that satisfy the eligibility
\* predicate, each once, in ascending order.
C12_AsStated ==
    Discovered =>
        /\ Range(script_paths) = {path \in DOMAIN fs : is_file(fs, path) /\ Eligible(path)}
        /\ Ascending(script_paths)

\* what discover_roadmap_scripts returns: whatever exists under the scan
\* root and satisfies the predicate, a directory named like a script
\* included, each once, in the ascending order of paths
C12_DiscoversEligiblePaths ==
    Discovered =>
        /\ Range(script_paths) = {path \in DOMAIN fs : exists(fs, path) /\ Eligible(path)}
        /\ Ascending(script_paths)

\* discovery on a tree that holds a directory pkg.py next to a.py and a/b.py
C12_Witness ==
    /\ Discovered
    /\ fs[P_pkg] = Dir
    /\ script_paths = <<P_a_b, P_a, P_pkg>>
    /\ BaselineDone
    /\ b_exit = 1
    /\ "- pkg.py: unable to read script: Is a directory" \in Range(b_out)

\* ------------------------------------------ the functions called directly
MaxDirs == 1

\* names of scripts and directories, as the collision test chooses them
StemNames == {<<"a">>, <<"b">>, <<"a", "_", "b">>}

\* eligible script paths, relative to the scan root
RelativeScripts ==
    {dirs \o << stem \o <<".py">> >> : dirs \in SeqsUpTo(StemNames, MaxDirs),
                                      stem \in StemNames}

\* expected_test_path called on two scripts of one scan root
ExpectedTestPathCalls ==
    {[fn |-> "expected_test_path", script_paths |-> <<Root \o p, Root \o q>>,
      scripts_root |-> Root] : p \in RelativeScripts, q \in RelativeScripts}

\* validate_script called on a script at the root or below a directory
ValidateScriptCalls ==
    {[fn |-> "validate_script", script_path |-> path, scripts_root |-> Root] :
        path \in {P_a, P_a_b}}

\* the trees validate_script is called on: the script in any form, and at the
\* place of its test nothing, a file of whatever content, or a directory
UnitFilesystems(script_path) ==
    {[path \in {script_path, IF script_path = P_a THEN P_test_a ELSE P_test_a_b} |->
         IF path = script_path THEN script ELSE test] :
        script \in {Missing, Unreadable, Dir} \cup {File(id) : id \in UnitScriptIds},
        test \in {Missing, Unreadable, Dir, File("valid"), File("broken")}}

CallExpectedTestPath ==
    /\ call.fn = "expected_test_path"
    /\ ~ret.returned
    /\ ret' = [returned |-> TRUE,
               value |-> [i \in 1..Len(call.script_paths) |->
                             expected_test_path(call.script_paths[i], call.scripts_root)]]
    /\ UNCHANGED <<sync_vars, fs, b_args, b_pc, script_paths, explicit_path_issues,
                   validated, issues, astroid_available, b_out, b_exit, call, earlier_runs>>

CallValidateScript ==
    /\ call.fn = "validate_script"
    /\ ~ret.returned
    /\ ret' = [returned |-> TRUE,
               value |-> validate_script(fs, call.script_path, call.scripts_root,
                                         astroid_available)]
    /\ UNCHANGED <<sync_vars, fs, b_args, b_pc, script_paths, explicit_path_issues,
                   validated, issues, astroid_available, b_out, b_exit, call, earlier_runs>>

\* files outside the scan root that fail the name checks of is_roadmap_script
P_outside_helper == <<Slash, <<"other">>, <<"_", "x", ".py">>>>
P_outside_notes == <<Slash, <<"other">>, <<"notes", ".txt">>>>

\* the explicit paths _process_explicit_paths is called on directly
ExplicitPaths == {P_a, P_dir_a, P_test_a, P_missing, P_outside, P_outside_helper, P_outside_notes}

\* the trees of those calls: each path outside the root a file, a directory
\* or nothing
ExplicitFilesystems ==
    {[path \in ExplicitPaths |->
         CASE path = P_a -> File("valid")
           [] path = P_dir_a -> Dir
           [] path = P_test_a -> File("valid")
           [] path = P_missing -> Missing
           [] path = P_outside -> outside
           [] path = P_outside_helper -> outside_helper
           [] path = P_outside_notes -> File("valid")] :
        outside \in {File("valid"), Dir, Missing},
        outside_helper \in {File("valid"), Dir, Missing}}

ProcessExplicitPathsCalls ==
    {[fn |-> "process_explicit_paths", paths |-> paths, scripts_root |-> Root] :
        paths \in SeqsUpTo(ExplicitPaths, MaxArgs)}

CallProcessExplicitPaths ==
    /\ call.fn = "process_explicit_paths"
    /\ ~ret.returned
    /\ ret' = [returned |-> TRUE,
               value |-> process_explicit_paths(fs, call.paths, call.scripts_root)]
    /\ UNCHANGED <<sync_vars, fs, b_args, b_pc, script_paths, explicit_path_issues,
                   validated, issues, astroid_available, b_out, b_exit, call, earlier_runs>>

\* the longest issue list handed to render_issues directly
MaxIssues == 3

\* issues as the checker produces them, on a script, a nested script and a
\* file outside the root
RenderableIssues ==
    {BaselineIssue(path, message) :
        path \in {P_a, P_a_b, P_outside},
        message \in {<<"explicit path is not a file">>,
                     <<"uv metadata must declare 'dependencies'">>}}

RenderIssuesCalls ==
    {[fn |-> "render_issues", issues |-> list, scripts_root |-> Root] :
        list \in UNION {[1..n -> RenderableIssues] : n \in 0..MaxIssues}}

CallRenderIssues ==
    /\ call.fn = "render_issues"
    /\ ~ret.returned
    /\ ret' = [returned |-> TRUE, value |-> render_issues(call.issues, call.scripts_root)]
    /\ UNCHANGED <<sync_vars, fs, b_args, b_pc, script_paths, explicit_path_issues,
                   validated, issues, astroid_available, b_out, b_exit, call, earlier_runs>>

UnitInit ==
    /\ SyncIdle
    /\ b_args = [root |-> <<>>, paths |-> <<>>]
    /\ b_pc = "idle"
    /\ script_paths = <<>>
    /\ explicit_path_issues = <<>>
    /\ validated = <<>>
    /\ issues = <<>>
    /\ b_out = <<>>
    /\ b_exit = 0
    /\ ret = NoReturn
    /\ earlier_runs = <<>>
    /\ \/ /\ call \in ExpectedTestPathCalls
          /\ fs = <<>>
          /\ astroid_available = TRUE
       \/ /\ call \in ValidateScriptCalls
          /\ fs \in UnitFilesystems(call.script_path)
          /\ astroid_available \in BOOLEAN
       \/ /\ call \in RenderIssuesCalls
          /\ fs = <<>>
          /\ astroid_available = TRUE
       \/ /\ call \in ProcessExplicitPathsCalls
          /\ fs \in ExplicitFilesystems
          /\ astroid_available = TRUE

UnitNext ==
    \/ CallExpectedTestPath
    \/ CallValidateScript
    \/ CallRenderIssues
    \/ CallProcessExplicitPaths

UnitSpec == UnitInit /\ [][UnitNext]_vars

\* ------------------------------------------ claims about the functions
Returned(fn) == call.fn = fn /\ ret.returned

RECURSIVE DirectoryText(_)
DirectoryText(dirs) ==
    IF dirs = <<>> THEN "" ELSE Str(Head(dirs)) \o "/" \o DirectoryText(Tail(dirs))

\* tests/<relative directory>/test_<name without extension>.py under the root
TestPathText(script_path, root) ==
    LET relative == SubSeq(script_path, Len(root) + 1, Len(script_path))
        file == relative[Len(relative)]
    IN PathStr(root) \o "/tests/"
           \o DirectoryText(SubSeq(relative, 1, Len(relative) - 1))
           \o "test_" \o Str(SubSeq(file, 1, Len(file) - 1)) \o ".py"

\* C13: expected_test_path maps two distinct eligible scripts of one scan root
\* (a/b.py and a_b.py among them) to distinct test paths, and its result is
\* always tests/<same relative directory>/test_<name without extension>.py
\* under the root.
C13_ExpectedTestPathInjective ==
    Returned("expected_test_path") =>
        /\ PathStr(call.script_paths[1]) /= PathStr(call.script_paths[2])
               => PathStr(ret.value[1]) /= PathStr(ret.value[2])
        /\ \A i \in 1..2 :
               PathStr(ret.value[i]) = TestPathText(call.script_paths[i], call.scripts_root)

\* the nested a/b.py against the flat a_b.py
C13_Witness ==
    /\ Returned("expected_test_path")
    /\ PathStr(call.script_paths[1]) = "/scripts/a/b.py"
    /\ PathStr(call.script_paths[2]) = "/scripts/a_b.py"
    /\ PathStr(ret.value[1]) = "/scripts/tests/a/test_b.py"
    /\ PathStr(ret.value[2]) = "/scripts/tests/test_a_b.py"

\* where the test of the script of a validate_script call belongs
TestOfCall == IF call.script_path = P_a THEN P_test_a ELSE P_test_a_b

\* the script of a validate_script call can be read
ReadableCall == fs[call.script_path].kind = "file" /\ fs[call.script_path].readable

\* the issues of a result whose message starts with the fragment
IssuesOf(result, fragment) ==
    {i \in 1..Len(result) : result[i].message[1] = fragment}

\* C14: for a readable script validate_script reports "missing matching test
\* '<path>'" exactly when nothing exists at the expected test path, and then
\* once; what exists there (a file of any content, an unreadable file, a
\* directory) does not change the result.
C14_MissingTestIffAbsent ==
    (Returned("validate_script") /\ ReadableCall) =>
        LET missing == IssuesOf(ret.value, "missing matching test '")
        IN /\ missing /= {} <=> fs[TestOfCall].kind = "missing"
           /\ Cardinality(missing) <= 1
           /\ \A i \in missing :
                  /\ ret.value[i].path = call.script_path
                  /\ Str(ret.value[i].message)
                         = "missing matching test '"
                               \o PathStr(relative_to(TestOfCall, call.scripts_root)) \o "'"
           /\ fs[TestOfCall].kind /= "missing" =>
                  \A other \in {Unreadable, Dir, File("valid"), File("broken")} :
                      validate_script([fs EXCEPT ![TestOfCall] = other], call.script_path,
                                      call.scripts_root, astroid_available) = ret.value

\* a compliant script below a directory, its test absent
C14_Witness ==
    /\ Returned("validate_script")
    /\ call.script_path = P_a_b
    /\ fs[P_a_b] = File("valid")
    /\ fs[P_test_a_b] = Missing
    /\ Len(ret.value) = 1
    /\ Str(ret.value[1].message) = "missing matching test 'tests/a/test_b.py'"

\* the error reading a path gives, from what the tree holds there
ReadFailure(path) ==
    IF path \notin DOMAIN fs \/ fs[path].kind = "missing" THEN "No such file or directory"
    ELSE IF fs[path].kind = "dir" THEN "Is a directory"
    ELSE IF ~fs[path].readable THEN "Permission denied"
    ELSE "none"

\* C15: when a script cannot be read, each call of validate_script on it adds
\* exactly one issue, "unable to read script: <detail>", and no metadata,
\* command or matching-test issue, even when its test is absent; the scripts
\* queued after it are validated all the same.
C15_ReadFailureIsOneIssue ==
    /\ \A path \in Range(validated) :
           ReadFailure(path) /= "none" =>
               /\ Cardinality({i \in 1..Len(issues) : issues[i].path = path})
                      = Cardinality({k \in 1..Len(validated) : validated[k] = path})
               /\ \A i \in 1..Len(issues) :
                      issues[i].path = path =>
                          issues[i].message = <<"unable to read script: ", ReadFailure(path)>>
    /\ BaselineDone => validated = script_paths

\* missing.py cannot be read; a.py, queued after it, is validated and gets
\* its three issues
C15_Witness ==
    /\ BaselineDone
    /\ validated = <<P_missing, P_a>>
    /\ fs[P_a] = File("broken")
    /\ fs[P_test_a] = Missing
    /\ Len(issues) = 4
    /\ issues[1] = BaselineIssue(P_missing, <<"unable to read script: ",
                                              "No such file or directory">>)
    /\ \A i \in 2..4 : issues[i].path = P_a
    /\ b_exit = 1

\* the catalogue script a validate_script call reads
ScriptOfCall == fs[call.script_path].text

HasIssue(result, fragment) == IssuesOf(result, fragment) /= {}

\* C16 as the specification states it: every script without a metadata block
\* gets both the shebang issue and the metadata-block issue.
C16_AsStated ==
    (Returned("validate_script") /\ ReadableCall /\ ~ScriptFacts(ScriptOfCall).block) =>
        /\ HasIssue(ret.value, "missing expected uv shebang '")
        /\ HasIssue(ret.value, "missing uv metadata block ('# /// script' ... '# ///')")

\* C16: the two checks are independent: the shebang issue is reported exactly
\* when the first line is not the uv shebang, the metadata-block issue
\* exactly when the block is absent or holds no key; a script without
\* shebang and without block gets both, one with the shebang and without
\* block gets the metadata-block issue alone.
C16_ShebangAndBlockIndependent ==
    (Returned("validate_script") /\ ReadableCall) =>
        LET facts == ScriptFacts(ScriptOfCall)
        IN /\ HasIssue(ret.value, "missing expected uv shebang '") <=> ~facts.shebang
           /\ HasIssue(ret.value, "missing uv metadata block ('# /// script' ... '# ///')")
                  <=> (~facts.block \/ facts.keys = {})

\* a script that starts with the shebang and has no block
C16_Witness ==
    /\ Returned("validate_script")
    /\ fs[call.script_path] = File("shebang_only")
    /\ fs[TestOfCall] = File("valid")
    /\ Len(ret.value) = 1
    /\ Str(ret.value[1].message) = "missing uv metadata block ('# /// script' ... '# ///')"

\* The requires-python clauses of the catalogue that are '>=3.13', with or
\* without a patch suffix '.N'.
BaselineClauses == {">=3.13", ">=3.13.4"}

\* The clauses the pattern '>=\s*3\.13(?:\.\d+)?$' accepts besides: blanks
\* between the operator and the version.
SpacedBaselineClauses == {">= 3.13"}

RequiresPythonReported == HasIssue(ret.value, "requires-python must include '")

SomeClauseIn(facts, accepted) ==
    \E i \in 1..Len(facts.clauses) : facts.clauses[i] \in accepted

\* C17 as the specification states it: for a script with a non-empty
\* metadata block the requires-python issue is reported exactly when the
\* field is absent or no clause is '>=3.13' or '>=3.13.N'.
C17_AsStated ==
    (Returned("validate_script") /\ ReadableCall /\ ScriptFacts(ScriptOfCall).keys /= {}) =>
        LET facts == ScriptFacts(ScriptOfCall)
        IN RequiresPythonReported
               <=> \/ "requires-python" \notin facts.keys
                   \/ ~SomeClauseIn(facts, BaselineClauses)

\* C17: for a script with a non-empty metadata block the requires-python
\* issue is reported exactly when the field is absent or no comma-separated
\* clause, trimmed of quotes and blanks, is '>=' followed by optional blanks
\* and '3.13' or '3.13.N'; '>=3.12' is reported, '>=3.13', '>=3.13.4' and
\* '>= 3.13' are not.
C17_RequiresPythonBaseline ==
    (Returned("validate_script") /\ ReadableCall /\ ScriptFacts(ScriptOfCall).keys /= {}) =>
        LET facts == ScriptFacts(ScriptOfCall)
        IN RequiresPythonReported
               <=> \/ "requires-python" \notin facts.keys
                   \/ ~SomeClauseIn(facts, BaselineClauses \cup SpacedBaselineClauses)

\* the clause '>= 3.13' passes without a requires-python issue
C17_Witness ==
    /\ Returned("validate_script")
    /\ fs[call.script_path] = File("spaced")
    /\ fs[TestOfCall] = File("valid")
    /\ ret.value = <<>>

RuleMessages == {FORBIDDEN_PATTERNS[r].message : r \in 1..Len(FORBIDDEN_PATTERNS)}

IsForbiddenIssue(issue) == issue.message \in RuleMessages

\* the messages of the forbidden-pattern issues of a result, in result order
ForbiddenMessages(result) ==
    LET found == SelectSeq(result, IsForbiddenIssue)
    IN [i \in 1..Len(found) |-> found[i].message]

RuleIndexes == [r \in 1..Len(FORBIDDEN_PATTERNS) |-> r]

\* the messages of the rules that match the script at least once, in
\* rule-list order
FiredMessages(facts) ==
    LET Fires(r) == facts.rule_matches[r] > 0
        fired == SelectSeq(RuleIndexes, Fires)
    IN [i \in 1..Len(fired) |-> FORBIDDEN_PATTERNS[fired[i]].message]

\* C18: the forbidden-pattern issues of a validated script are one issue per
\* rule that matches anywhere in its text, in rule-list order: one issue for
\* a rule that matches several times, none for a rule that does not match,
\* several issues when several rules match.
C18_OneIssuePerMatchingRule ==
    (Returned("validate_script") /\ ReadableCall) =>
        /\ ForbiddenMessages(ret.value) = FiredMessages(ScriptFacts(ScriptOfCall))
        /\ \A i \in 1..Len(ret.value) :
               IsForbiddenIssue(ret.value[i]) => ret.value[i].path = call.script_path

\* a script in which four rules match, two of them twice
C18_Witness ==
    /\ Returned("validate_script")
    /\ fs[call.script_path] = File("many")
    /\ ScriptFacts("many").rule_matches = <<0, 2, 1, 2, 2, 0, 0>>
    /\ Len(ForbiddenMessages(ret.value)) = 4

\* The parsed tree of the script is at hand: astroid is importable and the
\* script parses.
TreeAvailable(id) == astroid_available /\ ScriptAst(id).ok

\* Cuprum usage as the checker detects it: with a parsed tree a call of the
\* name Program or of the attribute make on sh; without one the text
\* 'Program(' or 'sh.make('.
UsageDetected(id) ==
    IF TreeAvailable(id)
    THEN \E c \in ScriptAst(id).calls :
             \/ c.kind = "Name" /\ c.name = "Program"
             \/ c.kind = "Attribute" /\ c.name = "make" /\ c.expr = "sh"
    ELSE ScriptFacts(id).usage_text

GuardIssues == IssuesOf(ret.value, "Cuprum command execution must use 'scoped(...allowlist=...)'")

RunIssues == IssuesOf(ret.value, "Cuprum commands must use 'run_sync()' or 'run()'")

\* C19: a script in which Cuprum usage is detected and whose text holds no
\* 'scoped(' gets the guarded-execution issue, once, whether or not a run
\* invocation is present; a script with 'scoped(' in its text, or without
\* detected usage, does not get it.
C19_UnscopedUsageReported ==
    (Returned("validate_script") /\ ReadableCall) =>
        LET unscoped == UsageDetected(ScriptOfCall) /\ ~ScriptFacts(ScriptOfCall).scoped_text
        IN /\ unscoped => Cardinality(GuardIssues) = 1
           /\ ~unscoped => GuardIssues = {}

\* usage without 'scoped(' and without a run invocation: both issues
C19_WitnessBothIssues ==
    /\ Returned("validate_script")
    /\ fs[call.script_path] = File("unscoped_norun")
    /\ astroid_available
    /\ GuardIssues /= {}
    /\ RunIssues /= {}

\* usage without 'scoped(' next to a run_sync() call: the guard issue alone
C19_Witness ==
    /\ Returned("validate_script")
    /\ fs[call.script_path] = File("unscoped_run")
    /\ GuardIssues /= {}
    /\ RunIssues = {}

\* A run invocation is demonstrable: with a parsed tree a top-level import
\* of a module whose name holds 'cuprum' together with a call whose callee is
\* an attribute named run or run_sync; without one (the script does not
\* parse, or astroid is not importable) the text 'run_sync(' or '.run('.
RunDemonstrable(id) ==
    IF TreeAvailable(id)
    THEN /\ \E m \in ScriptAst(id).imports \cup ScriptAst(id).from_modules :
                m \in ContainsCuprum
         /\ \E c \in ScriptAst(id).calls :
                c.kind = "Attribute" /\ c.name \in {"run", "run_sync"}
    ELSE ScriptFacts(id).run_text

\* C20: a script in which Cuprum usage is detected gets the issue "Cuprum
\* commands must use 'run_sync()' or 'run()'", once, exactly when no run
\* invocation is demonstrable; a script without detected usage never gets it.
C20_RunIssueIffNotDemonstrable ==
    (Returned("validate_script") /\ ReadableCall) =>
        LET undemonstrated == UsageDetected(ScriptOfCall) /\ ~RunDemonstrable(ScriptOfCall)
        IN /\ undemonstrated => Cardinality(RunIssues) = 1
           /\ ~undemonstrated => RunIssues = {}

\* a parsed script that calls .run() on a Program without importing cuprum
C20_Witness ==
    /\ Returned("validate_script")
    /\ fs[call.script_path] = File("run_no_import")
    /\ TreeAvailable("run_no_import")
    /\ ScriptFacts("run_no_import").run_text
    /\ RunIssues /= {}

\* a script that does not parse: the text decides
C20_WitnessParseFailure ==
    /\ Returned("validate_script")
    /\ astroid_available
    /\ fs[call.script_path] = File("syntax_norun")
    /\ ~ScriptAst("syntax_norun").ok
    /\ RunIssues /= {}

\* the line render_issues writes for an issue
IssueLine(issue, root) ==
    LET shown == IF is_under(issue.path, root)
                 THEN SubSeq(issue.path, Len(root) + 1, Len(issue.path))
                 ELSE issue.path
    IN "- " \o PathStr(shown) \o ": " \o Str(issue.message)

\* the orders in which n issues can be written
Orders(n) == {p \in [1..n -> 1..n] : \A i, j \in 1..n : p[i] = p[j] => i = j}

\* C21: render_issues returns the header line 'script baseline validation
\* failed:' and then one '- <path>: <message>' line per issue, the issues
\* taken in ascending order of (path as string, message) whatever the order
\* they were collected in; the path is written relative to the scan root, and
\* unchanged when it is not under the root.
C21_ReportSortedOneLinePerIssue ==
    Returned("render_issues") =>
        LET n == Len(call.issues)
        IN /\ Len(ret.value) = n + 1
           /\ ret.value[1] = "script baseline validation failed:"
           /\ \E p \in Orders(n) :
                  /\ \A i \in 1..n :
                         ret.value[i + 1] = IssueLine(call.issues[p[i]], call.scripts_root)
                  /\ \A i, j \in 1..n :
                         i < j => ~IssueLess(call.issues[p[j]], call.issues[p[i]])

\* three issues collected in descending order: the file outside the root,
\* the nested script, the script
C21_Witness ==
    /\ Returned("render_issues")
    /\ call.issues = <<BaselineIssue(P_outside, <<"explicit path is not a file">>),
                       BaselineIssue(P_a_b, <<"uv metadata must declare 'dependencies'">>),
                       BaselineIssue(P_a, <<"uv metadata must declare 'dependencies'">>)>>
    /\ Len(ret.value) = 4

\* what the run of main that has just ended produced
ThisRun ==
    [issues |-> all_issues, validated |-> validated, out |-> b_out, exit |-> b_exit]

InputScope ==
    IF b_args.paths /= <<>>
    THEN {resolve(b_args.paths[i]) : i \in 1..Len(b_args.paths)}
    ELSE {path \in DOMAIN fs : exists(fs, path) /\ Eligible(path)}

\* C23: at every point of a run each issue collected so far carries a path of
\* the input scope: with explicit path arguments one of them in resolved form
\* and never another script, without them a path that discovery returned
\* under the eligibility predicate and never a helper or a test.
C23_IssuesWithinInputScope ==
    (b_pc /= "idle") =>
        /\ \A i \in 1..Len(all_issues) : all_issues[i].path \in InputScope
        /\ Range(validated) \subseteq InputScope

\* discovery on a tree that holds a helper and a test besides two scripts
\* with issues
C23_Witness ==
    /\ BaselineDone
    /\ b_args.paths = <<>>
    /\ is_file(fs, P_helper)
    /\ is_file(fs, P_test_a)
    /\ {all_issues[i].path : i \in 1..Len(all_issues)} = {P_a, P_a_b}

\* one script named although the tree holds another one without its test
C23_WitnessExplicit ==
    /\ BaselineDone
    /\ Len(b_args.paths) = 1
    /\ fs[P_a_b] = File("valid")
    /\ ~exists(fs, P_test_a_b)
    /\ all_issues /= <<>>
    /\ \A i \in 1..Len(all_issues) : all_issues[i].path = P_a

BlockReported == HasIssue(ret.value, "missing uv metadata block ('# /// script' ... '# ///')")

DependenciesReported == HasIssue(ret.value, "uv metadata must declare 'dependencies'")

\* C24 as the specification states it: the 'missing uv metadata block' issue
\* is reported only for a script without a metadata block (no block-start
\* line, or no block-end line after it); a script whose block is present and
\* lacks a required field gets the requires-python or dependencies issue
\* instead.
C24_AsStated ==
    (Returned("validate_script") /\ ReadableCall) =>
        LET facts == ScriptFacts(ScriptOfCall)
        IN /\ BlockReported => ~facts.block
           /\ (facts.block /\ "requires-python" \notin facts.keys) => RequiresPythonReported
           /\ (facts.block /\ "dependencies" \notin facts.keys) => DependenciesReported

\* a block with both marker lines and no key between them is reported as a
\* missing block, and as nothing else
C24_Witness ==
    /\ Returned("validate_script")
    /\ fs[call.script_path] = File("comment_block")
    /\ ScriptFacts("comment_block").block
    /\ fs[TestOfCall] = File("valid")
    /\ Len(ret.value) = 1
    /\ BlockReported

\* the issues of the metadata checks in a result
MetadataIssues ==
    IssuesOf(ret.value, "missing expected uv shebang '")
        \cup IssuesOf(ret.value, "missing uv metadata block ('# /// script' ... '# ///')")
        \cup IssuesOf(ret.value, "requires-python must include '")
        \cup IssuesOf(ret.value, "uv metadata must declare 'dependencies'")

\* C25: for a script whose metadata mapping is empty the metadata checks
\* report the missing-block issue and stop: no requires-python issue, no
\* dependencies issue, at most two metadata issues (shebang, missing block);
\* for a script whose mapping holds a key they report the dependencies issue
\* exactly when the key 'dependencies' is absent, whatever value it has, and
\* no missing-block issue.
C25_EmptyMappingStopsMetadataChecks ==
    (Returned("validate_script") /\ ReadableCall) =>
        LET facts == ScriptFacts(ScriptOfCall)
        IN IF facts.keys = {}
           THEN /\ Cardinality(IssuesOf(ret.value,
                        "missing uv metadata block ('# /// script' ... '# ///')")) = 1
                /\ ~RequiresPythonReported
                /\ ~DependenciesReported
                /\ Cardinality(MetadataIssues) <= 2
           ELSE /\ ~BlockReported
                /\ DependenciesReported <=> "dependencies" \notin facts.keys
                /\ Cardinality(IssuesOf(ret.value,
                        "uv metadata must declare 'dependencies'")) <= 1

\* no shebang and no block: two metadata issues and no more
C25_Witness ==
    /\ Returned("validate_script")
    /\ fs[call.script_path] = File("broken")
    /\ ScriptFacts("broken").keys = {}
    /\ Cardinality(MetadataIssues) = 2
    /\ ~RequiresPythonReported
    /\ ~DependenciesReported

\* the key 'dependencies' with an empty value counts as declared
C25_WitnessEmptyValue ==
    /\ Returned("validate_script")
    /\ fs[call.script_path] = File("deps_empty")
    /\ MetadataIssues = {}

\* where the forbidden-pattern issues stand in a result
ForbiddenIssues == {i \in 1..Len(ret.value) : IsForbiddenIssue(ret.value[i])}

\* C26: a script in which no Cuprum usage is detected gets neither the
\* guarded-execution nor the run-invocation issue, even if its text holds no
\* 'scoped(' and no run call; a script in which usage is detected has both
\* posture checks evaluated, and their issues stand after every
\* forbidden-pattern issue, the guard issue before the run issue.
C26_UsageGatesPostureChecks ==
    (Returned("validate_script") /\ ReadableCall) =>
        LET facts == ScriptFacts(ScriptOfCall)
        IN IF ~UsageDetected(ScriptOfCall)
           THEN GuardIssues = {} /\ RunIssues = {}
           ELSE /\ GuardIssues /= {} <=> ~facts.scoped_text
                /\ RunIssues /= {} <=> ~RunDemonstrable(ScriptOfCall)
                /\ \A i \in ForbiddenIssues : \A j \in GuardIssues \cup RunIssues : i < j
                /\ \A i \in GuardIssues : \A j \in RunIssues : i < j

\* no usage, no 'scoped(', no run call, one forbidden pattern: the pattern
\* issue alone
C26_Witness ==
    /\ Returned("validate_script")
    /\ fs[call.script_path] = File("plain_os_system")
    /\ fs[TestOfCall] = File("valid")
    /\ ~ScriptFacts("plain_os_system").usage_text
    /\ ~ScriptFacts("plain_os_system").scoped_text
    /\ ~ScriptFacts("plain_os_system").run_text
    /\ ForbiddenIssues /= {}
    /\ GuardIssues = {} /\ RunIssues = {}

\* usage with a forbidden pattern and posture issues after it
C26_WitnessOrder ==
    /\ Returned("validate_script")
    /\ fs[call.script_path] = File("unscoped_os_system")
    /\ UsageDetected(ScriptOfCall)
    /\ ForbiddenIssues /= {}
    /\ GuardIssues \cup RunIssues /= {}

\* the issues _process_explicit_paths returned for a path
ExplicitIssuesOn(path) ==
    {ret.value.issues[i].message :
        i \in {j \in 1..Len(ret.value.issues) : ret.value.issues[j].path = path}}

NamedPaths == {resolve(call.paths[i]) : i \in 1..Len(call.paths)}

\* C27 as the specification states it: an explicit path that is a regular
\* file and not under the scan root gets the issue 'explicit path must be
\* under scripts root and match roadmap script discovery rules' and not the
\* issue 'explicit path is not a roadmap-delivered script entrypoint'; one
\* that exists and is not a regular file gets 'explicit path is not a file';
\* neither is queued for validation.
C27_AsStated ==
    Returned("process_explicit_paths") =>
        \A path \in NamedPaths :
            /\ (is_file(fs, path) /\ ~is_under(path, call.scripts_root)) =>
                   /\ ExplicitIssuesOn(path) =
                          {<<"explicit path must be under scripts root and match roadmap script discovery rules">>}
                   /\ path \notin Range(ret.value.script_paths)
            /\ (exists(fs, path) /\ ~is_file(fs, path)) =>
                   /\ ExplicitIssuesOn(path) = {<<"explicit path is not a file">>}
                   /\ path \notin Range(ret.value.script_paths)

\* C27: an explicit path that is a regular file and not under the scan root
\* gets the issue 'explicit path must be under scripts root and match roadmap
\* script discovery rules' when its name passes the name checks (suffix .py,
\* no leading underscore) and the issue 'explicit path is not a
\* roadmap-delivered script entrypoint' when it does not; one that exists and
\* is not a regular file gets 'explicit path is not a file'; neither is
\* queued for validation.
C27_NameChecksComeFirst ==
    Returned("process_explicit_paths") =>
        \A path \in NamedPaths :
            /\ (is_file(fs, path) /\ ~is_under(path, call.scripts_root)) =>
                   /\ ExplicitIssuesOn(path) =
                          IF suffix_of(path) = ".py" /\ name_of(path)[1] /= "_"
                          THEN {<<"explicit path must be under scripts root and match roadmap script discovery rules">>}
                          ELSE {<<"explicit path is not a roadmap-delivered script entrypoint">>}
                   /\ path \notin Range(ret.value.script_paths)
            /\ (exists(fs, path) /\ ~is_file(fs, path)) =>
                   /\ ExplicitIssuesOn(path) = {<<"explicit path is not a file">>}
                   /\ path \notin Range(ret.value.script_paths)

\* the file /other/_x.py named alone: the entrypoint issue
C27_Witness ==
    /\ Returned("process_explicit_paths")
    /\ call.paths = <<P_outside_helper>>
    /\ is_file(fs, P_outside_helper)
    /\ ret.value.script_paths = <<>>
    /\ ret.value.issues =
           <<BaselineIssue(P_outside_helper,
                 <<"explicit path is not a roadmap-delivered script entrypoint">>)>>

\* ------------------------------------- further claims about the sync tool
\* the remote names of a listing: its lines without the blanks around them
ListingNames(out) == Range(out) \ {" ", "\n"}

\* the remote-configuration commands among the invocations so far
RemoteConfigurations ==
    {i \in 1..Len(calls) :
        /\ calls[i].program = "git"
        /\ Len(calls[i].args) = 4
        /\ calls[i].args[1] = "remote"
        /\ calls[i].args[2] \in {"add", "set-url"}}

RevParses ==
    {i \in 1..Len(calls) : calls[i].program = "git" /\ calls[i].args[1] = "rev-parse"}

\* C28: after a 'git remote' listing that succeeded and holds the fork
\* remote, _ensure_remotes issues exactly one remote-configuration command,
\* before the first rev-parse: 'git remote add <upstream> <url>' when the
\* upstream name is not in the listing, 'git remote set-url <upstream> <url>'
\* when it is; the run never goes on or ends without it, and never issues
\* both.
C28_OneRemoteConfiguration ==
    /\ pc = "remote_configure" =>
           /\ remotes = ListingNames(last_outcome.stdout)
           /\ config.fork_remote \in remotes
           /\ RemoteConfigurations = {}
    /\ (Len(calls) = 4 /\ SyncEnded) =>
           (~last_outcome.ok \/ config.fork_remote \notin ListingNames(last_outcome.stdout))
    /\ Len(calls) >= 5 =>
           /\ calls[4] = Git(<<"remote">>, submodule_root(config))
           /\ results[4]
           /\ calls[5] = Git(<<"remote",
                               IF config.upstream_remote \in remotes THEN "set-url" ELSE "add",
                               config.upstream_remote, config.upstream_url>>,
                             submodule_root(config))
           /\ RemoteConfigurations = {5}
           /\ \A i \in RevParses : i > 5

\* the listing held origin and upstream: set-url, then rev-parse
C28_Witness ==
    /\ Len(calls) >= 6
    /\ remotes = {"origin", "upstream"}
    /\ calls[5].args = <<"remote", "set-url", "upstream", "https://github.com/pydantic/monty.git">>
    /\ 6 \in RevParses

\* the listing held origin alone: add
C28_WitnessAdd ==
    /\ Len(calls) >= 6
    /\ remotes = {"origin"}
    /\ calls[5].args = <<"remote", "add", "upstream", "https://github.com/pydantic/monty.git">>

\* the i-th step of the fixed sequence of run_monty_sync may be this command
IsFixedStep(i, invocation) ==
    IF i = 5
    THEN invocation \in
             {Git(<<"remote", verb, config.upstream_remote, config.upstream_url>>,
                  submodule_root(config)) : verb \in {"add", "set-url"}}
    ELSE invocation = HappyCalls(config.verification_targets)[i]

\* no step is invoked twice, no failed command is followed by another
\* invocation, and the invocations stay within twelve plus one per target
NoRetry ==
    /\ Len(results) = Len(calls)
    /\ Len(calls) <= 12 + Len(config.verification_targets)
    /\ \A i \in 1..Len(calls) : IsFixedStep(i, calls[i])
    /\ \A i \in 1..(Len(calls) - 1) : results[i]
    /\ (\E i \in 1..Len(results) : ~results[i]) =>
           (SyncEnded /\ outcome = "raised" /\ ~results[Len(results)])
    /\ (pc /= "start" /\ Len(calls) = 12 + Len(config.verification_targets)) => SyncEnded

\* every step of a run that has started is one runner invocation
OneInvocationPerStep == pc /= "start" => Len(calls') = Len(calls) + 1

\* C29: no operation of the sync workflow is retried: whatever the runner
\* returns, the invocations of a run are the steps of the fixed sequence,
\* each at its place and at most once; a command that returned ok=false is
\* the last invocation of the run; every step of the run is one invocation,
\* and the run has ended, by returning or by raising MontySyncError, when
\* 12 + len(verification_targets) invocations are made.
C29_NoRetryAndTermination == []NoRetry /\ [][OneInvocationPerStep]_vars

\* a run that raised at the merge, its tenth invocation, after nine that
\* returned ok
C29_Witness ==
    /\ pc = "raised"
    /\ Len(calls) = 10
    /\ ~results[10]
    /\ \A i \in 1..9 : results[i]
    /\ calls[10].args[1] = "merge"

Logged(line) == {i \in 1..Len(log) : log[i] = line}

\* the revisions a rev-parse can report
Revisions == {Str(strip(text)) : text \in RevisionTexts}

UpdatedLine(before, after) ==
    "monty-sync: submodule revision updated " \o before \o " -> " \o after

\* the log lines on the revision of the submodule
RevisionLines ==
    {i \in 1..Len(log) :
        \/ log[i] = "monty-sync: submodule revision already current"
        \/ \E b \in Revisions, a \in Revisions : log[i] = UpdatedLine(b, a)}

C30_WitnessCurrent ==
    /\ Len(calls) = 11
    /\ results[11]
    /\ before_revision = Str(strip(last_outcome.stdout))
    /\ log[Len(log)] = "monty-sync: submodule revision already current"

====
